---- MODULE Spec2Model ----
(***************************************************************************)
(* Model of salsa-milk's batch processor, process_files of                 *)
(* salsa_milk_core.py: for every input file it normalizes the file to WAV  *)
(* (ffmpeg), separates the vocals (demucs, whose diagnostic stream is      *)
(* scanned for percentages), locates vocals.wav, remuxes (ffmpeg), and     *)
(* cleans the intermediates up in a finally block.                         *)
(*                                                                         *)
(* Fractions are exact rationals.  With N input files, a fraction INSIDE a *)
(* file's span is an integer count of 1/(10000*N), and an OVERALL fraction *)
(* is an integer count of 1/(10000*N*N); so per_file_span * fraction keeps *)
(* its numerator and index/N is index*10000*N.                             *)
(***************************************************************************)
EXTENDS Integers, Sequences, FiniteSets, TLC

\* ------------------------------------------------------------ bounds
MaxFiles == 2
MaxLines == 2
MaxTargets == 2
MaxNow == 1
MaxEvents == 1
MaxInputs == 2
MaxUploads == 2

\* ------------------------------------------------------------ helpers
Max(a, b) == IF a >= b THEN a ELSE b
Min(a, b) == IF a <= b THEN a ELSE b

NoProc == [step |-> "none", index |-> -1, vcopy |-> FALSE, codec |-> "-",
           ext |-> "-", vocals |-> <<>>]

\* ------------------------------------------------------------ file names
\* A path is [dir, name]; name is the file name split at its dots, so
\* <<"song","mp3">> is song.mp3 and <<"","mp3">> is the hidden file .mp3 .

\* Path.stem: the name without its last suffix; a leading dot starts no suffix.
Stem(name) ==
    IF Len(name) = 1 \/ (Len(name) = 2 /\ name[1] = "")
    THEN name
    ELSE SubSeq(name, 1, Len(name) - 1)

\* Path.suffix without its dot ("" when the name has no suffix).
Suffix(name) ==
    IF Len(name) = 1 \/ (Len(name) = 2 /\ name[1] = "")
    THEN ""
    ELSE name[Len(name)]

\* str.lower() on the extensions the model draws.
Lower(s) ==
    CASE s = "MP4" -> "mp4"
      [] s = "Mp3" -> "mp3"
      [] s = "WAV" -> "wav"
      [] s = "MKV" -> "mkv"
      [] OTHER -> s

VideoExts == {"mp4", "mov", "avi", "mkv", "webm"}
\* mutant: the allow-list of the older CLI script, without aac and opus
AllowedExtsLegacy == {"mp3", "wav", "ogg", "m4a"}

AllowedExts == {"mp3", "wav", "ogg", "m4a", "aac", "opus"}

HasVideo(file) == Lower(Suffix(file.name)) \in VideoExts

OutputExt(file) ==
    IF HasVideo(file) THEN "mp4"
    ELSE IF Lower(Suffix(file.name)) \in AllowedExts
         THEN Lower(Suffix(file.name))
         ELSE "wav"

Codec(file) ==
    IF HasVideo(file) THEN "aac"
    ELSE IF OutputExt(file) = "mp3" THEN "libmp3lame"
    ELSE IF OutputExt(file) \in {"aac", "m4a"} THEN "aac"
    ELSE IF OutputExt(file) \in {"ogg", "opus"} THEN "libopus"
    ELSE "copy"

FileId(file) == Stem(file.name)

\* <output root>/<id>_vocals.<ext>
OutputPath(file) == [root |-> "output", id |-> FileId(file), ext |-> OutputExt(file)]

\* ------------------------------------------------------------ inputs
FileUniverse ==
    { [dir |-> "a", name |-> <<"song", "mp3">>],
      [dir |-> "b", name |-> <<"song", "MP4">>],
      [dir |-> "a", name |-> <<"clip", "flac">>] }

CodecUniverse ==
    { [dir |-> "a", name |-> <<"v", e>>] :
        e \in {"mp4", "mov", "avi", "mkv", "webm", "MP4", "MKV", "mp3", "Mp3",
               "m4a", "aac", "ogg", "opus", "wav", "WAV", "flac", "txt"} }
    \cup { [dir |-> "a", name |-> <<"noext">>],
           [dir |-> "a", name |-> <<"", "mp3">>],
           [dir |-> "a", name |-> <<"take", "mp4", "wav">>] }

Batches == UNION { [1..n -> FileUniverse] : n \in 0..MaxFiles }

\* files with one stem, in two directories and with three extensions
StemUniverse ==
    { [dir |-> "a", name |-> <<"song", "mp3">>],
      [dir |-> "b", name |-> <<"song", "mp3">>],
      [dir |-> "a", name |-> <<"song", "flac">>],
      [dir |-> "a", name |-> <<"song", "wav">>] }

\* batches of pairwise distinct paths
StemBatches ==
    { b \in UNION { [1..n -> StemUniverse] : n \in 1..MaxFiles } :
        \A i, j \in 1..Len(b) : i # j => b[i] # b[j] }

\* ------------------------------------------------------------ percentages
Digits == {"0", "1", "2", "3", "4", "5", "6", "7", "8", "9"}

DigitVal(c) ==
    CASE c = "0" -> 0 [] c = "1" -> 1 [] c = "2" -> 2 [] c = "3" -> 3
      [] c = "4" -> 4 [] c = "5" -> 5 [] c = "6" -> 6 [] c = "7" -> 7
      [] c = "8" -> 8 [] c = "9" -> 9

\* \d{1,3}% matches at position i with k digits
MatchAt(line, i, k) ==
    /\ i + k <= Len(line)
    /\ \A j \in i..(i + k - 1) : line[j] \in Digits
    /\ line[i + k] = "%"

MatchStarts(line) == { i \in 1..Len(line) : \E k \in 1..3 : MatchAt(line, i, k) }

RECURSIVE IntOf(_)
IntOf(ds) == IF ds = <<>> THEN 0
             ELSE 10 * IntOf(SubSeq(ds, 1, Len(ds) - 1)) + DigitVal(ds[Len(ds)])

\* re.search(r"(\d{1,3})%", raw_line): -1 for no match, else int(group(1))
\* of the leftmost match.
Search(line) ==
    IF MatchStarts(line) = {} THEN -1
    ELSE LET i == CHOOSE s \in MatchStarts(line) : \A t \in MatchStarts(line) : s <= t
             k == CHOOSE n \in 1..3 : MatchAt(line, i, n)
         IN IntOf(SubSeq(line, i, i + k - 1))

\* mutant: the parsed value is used unclamped
PercentUnclamped(p) == p

\* percent = min(int(match.group(1)), 100)
Percent(p) == Min(p, 100)

LineUniverse ==
    { <<"1", "0", "%">>,
      <<"9", "9", "9", "%">>,
      <<"x", "5", "%", "9", "0", "%">>,
      <<"1", "2", "3", "4", "%">>,
      <<"e", "t", "a", " ", "%">>,
      <<"1", "0", "0">> }

\* ------------------------------------------------------------ state
VARIABLES
    input_files,   \* the batch, a sequence of paths
    hasCallback,   \* progress_callback is not None
    pc,            \* position in process_files
    index,         \* enumerate index of the current file
    results,       \* the result list
    dirs,          \* directories created by process_files
    wavs,          \* ids with <temp root>/audio/<id>.wav on disk
    demucsDirs,    \* <<model dir, id>> directories under <temp root>/demucs
    vocalsFiles,   \* those of demucsDirs that hold vocals.wav
    outputs,       \* output files written by a successful remux
    vocals_path,   \* <<model dir, id>> located for the current file
    pending,       \* "exception" while an unexpected exception propagates
    linesRead,     \* diagnostic lines read from the current separation
    lastLine,      \* the diagnostic line read by the last step, <<>> if none
    seen,          \* [p, fraction, bounded] of each matching line of the running separation
    lastProc,      \* the external process started last
    normStarted,   \* indices whose normalize step was started
    cur,           \* outcome of each step of the current file
    okIdx,         \* indices whose every step succeeded (set when the file ends)
    failedIdx,     \* indices one of whose steps exited non-zero
    emitCalls,     \* calls of emit() made by the last step
    delivered,     \* progress_callback invocations made by the last step
    completeCount  \* "complete" events delivered so far

\* download_from_youtube (salsa_milk_core.py)
VARIABLES
    urls,          \* the argument: [kind |-> "list" or "str", val |-> ...]
    ytpc,          \* position in download_from_youtube
    targets,       \* the list the loop runs over
    yti,           \* position of the loop in targets (1-based)
    downloaded,    \* the list of downloaded paths
    media,         \* identifiers with <download root>/<identifier>.mp4 on disk
    rootMade,      \* download_root.mkdir was called
    now,           \* int(time.time())
    ytRuns         \* the downloader invocations made so far

coreVars == <<input_files, hasCallback, pc, index, results, dirs, wavs,
              demucsDirs, vocalsFiles, outputs, vocals_path, pending, linesRead,
              lastLine, seen, lastProc, normStarted, cur, okIdx, failedIdx,
              emitCalls, delivered, completeCount>>

ytVars == <<urls, ytpc, targets, yti, downloaded, media, rootMade, now, ytRuns>>

\* the web layer (webapp.py)
VARIABLES
    registry,      \* the keys of _TASKS
    task,          \* the ProcessingTask object of each identifier
    workDirs,      \* identifiers whose working directory is on disk
    outFiles,      \* identifiers whose output file is on disk
    lock,          \* _TASK_LOCK: 0 when free, else the task whose worker holds it
    worker,        \* the _run_task thread of each task
    poller,        \* the request thread serving GET /api/progress
    fetcher,       \* the request thread serving GET /api/download
    resp,          \* the HTTP response sent by the last step
    unlocked,      \* accesses to shared mutable state the last step made without the mutex
    closedIds      \* identifiers whose download stream closed and was cleaned up

webVars == <<registry, task, workDirs, outFiles, lock, worker, poller, fetcher,
             resp, unlocked, closedIds>>

\* main of the command-line script (salsa-milk.py)
VARIABLES
    inputs,        \* args.inputs
    clipc,         \* position in main
    youtube_urls,  \* the inputs classified as remote
    local_files,   \* the inputs classified as local
    yt_files,      \* what download_from_youtube returned
    all_files,     \* local_files + yt_files
    processArg,    \* the calls of process_files made by main, with their list
    cliResults,    \* what process_files returned
    cliLog,        \* the final message logged by main
    exitCode       \* the exit code of main, -1 while it runs

cliVars == <<inputs, clipc, youtube_urls, local_files, yt_files, all_files,
             processArg, cliResults, cliLog, exitCode>>

\* the entry points around the core
\* gunicorn.conf.py: position, the arguments and the return value of a direct
\* _int_env call, the raw value the last os.environ.get returned, and the
\* module's settings
VARIABLES envpc, envArgs, envRet, lastRaw, workers, threads, timeout,
          graceful_timeout, max_requests, max_requests_jitter

envVars == <<envpc, envArgs, envRet, lastRaw, workers, threads, timeout,
             graceful_timeout, max_requests, max_requests_jitter>>

\* streamlit_app.py, _process_submission: its arguments, position, the
\* entries on disk under the working directory, the number of working
\* directories created, its locals, the exception in flight and the value
\* returned
VARIABLES uploaded_files, stUrls, stpc, stDisk, stMade, local_paths,
          downloaded_paths, all_inputs, stResults, packaged, stExc

stVars == <<uploaded_files, stUrls, stpc, stDisk, stMade, local_paths,
            downloaded_paths, all_inputs, stResults, packaged, stExc>>

frontVars == <<cliVars, envVars, stVars>>

vars == <<coreVars, ytVars, webVars, frontVars>>

Model == "htdemucs"

N == Len(input_files)
File == input_files[index + 1]

NoOutcome == [norm |-> "-", sep |-> "-", located |-> "-", remux |-> "-"]

\* ------------------------------------------------------------ progress
\* 1.0 as an overall fraction
One == 10000 * N * N

\* per_file_start = index / len(path_inputs), as an overall fraction
PerFileStart(idx) == idx * 10000 * N

\* per_file_span = 1.0 / len(path_inputs), as a fraction inside a span
PerFileSpan == 10000

\* a literal fraction of the source, given in 1/10000, inside a span
Frac(f) == f * N

\* demucs_fraction = 0.22 + 0.6 * (percent / 100)
DemucsFraction(percent) == (2200 + 60 * percent) * N

\* bounded = max(0.0, min(1.0, per_file_start + per_file_span * fraction))
Bounded(idx, fraction) == Max(0, Min(One, PerFileStart(idx) + fraction))

EmitCall(stage, fraction) == [stage |-> stage, fraction |-> fraction]

\* emit(): nothing without a callback, else the callback gets the bounded value
Emit(idx, calls) ==
    IF hasCallback
    THEN [i \in 1..Len(calls) |->
            [stage |-> calls[i].stage, fraction |-> Bounded(idx, calls[i].fraction)]]
    ELSE <<>>

\* mutant: the final event reports 100 (a percentage) instead of 1.0
FinalFractionPercent == 100 * One

\* the fraction of the final "complete" event
FinalFraction == One

\* ------------------------------------------------------------ Init
\* ------------------------------------------------------------ web layer: records
\* the identifiers uuid4 hands out, in the order of the accepted uploads
TaskIds == {1}

\* the identifiers clients ask for; 2 is never handed out
RequestIds == TaskIds \cup {2}

NoPath == [dir |-> 0, id |-> <<>>, ext |-> ""]

\* no ProcessingTask object
NoTask ==
    [status |-> "none", progress |-> 0, message |-> "-", output_path |-> NoPath,
     download_name |-> <<>>, error |-> "None", saved |-> <<>>]

NoEvent == [stage |-> "-", fraction |-> 0]

NoThread == [pc |-> "none", back |-> "-", sent |-> 0, event |-> NoEvent,
             outcome |-> "-", output |-> NoPath]

NoPayload == [status |-> "-", progress |-> 0, message |-> "-", error |-> "-",
              download_ready |-> FALSE]

NoUpload == [present |-> FALSE, filename |-> <<>>]

NoResp == [handler |-> "-", code |-> 0, id |-> 0, error |-> "-",
           payload |-> NoPayload, upload |-> NoUpload]

IdleHandler == [pc |-> "idle", id |-> 0, payload |-> NoPayload]

\* the web application after create_app(), with the given request threads
\* for downloads: no task, the mutex free
WebStartWith(downloads) ==
    /\ registry = {}
    /\ task = [t \in TaskIds |-> NoTask]
    /\ workDirs = {}
    /\ outFiles = {}
    /\ lock = 0
    /\ worker = [t \in TaskIds |-> NoThread]
    /\ poller = IdleHandler
    /\ fetcher = [f \in downloads |-> IdleHandler]
    /\ resp = NoResp
    /\ unlocked = {}
    /\ closedIds = {}

\* the request threads that may serve a download
DownloadThreads == {1, 2}

\* one download at a time
WebStart == WebStartWith({1})

\* the state of download_from_youtube at position at, before any of its steps
YtAt(args, files, at) ==
    /\ urls \in args
    /\ ytpc = at
    /\ targets = <<>>
    /\ yti = 1
    /\ downloaded = <<>>
    /\ media \in files
    /\ rootMade = FALSE
    /\ now = 0
    /\ ytRuns = <<>>

\* download_from_youtube is not called
YtIdle == YtAt({[kind |-> "list", val |-> <<>>]}, {{}}, "idle")

\* main at position at, before any of its steps
CliAt(args, at) ==
    /\ inputs \in args
    /\ clipc = at
    /\ youtube_urls = <<>>
    /\ local_files = <<>>
    /\ yt_files = <<>>
    /\ all_files = <<>>
    /\ processArg = <<>>
    /\ cliResults = <<>>
    /\ cliLog = "-"
    /\ exitCode = -1

\* main is not called
CliIdle == CliAt({<<>>}, "idle")

\* none of the entry points is called
\* an optional integer: None, an integer, or a name not bound yet
NoneV == [kind |-> "none", val |-> 0]
Some(n) == [kind |-> "int", val |-> n]
Unbound == [kind |-> "unbound", val |-> 0]

\* an environment variable: unset, or set to a string of characters
Unset == [set |-> FALSE, val |-> <<>>]
Raw(chars) == [set |-> TRUE, val |-> chars]

NoArgs == [raw |-> Unset, default |-> NoneV, minimum |-> NoneV,
           allow_none |-> FALSE]

EnvAt(args, at) ==
    /\ envpc \in at
    /\ envArgs \in (IF envpc = "call" THEN args ELSE {NoArgs})
    /\ envRet = Unbound
    /\ lastRaw = Unset
    /\ workers = Unbound
    /\ threads = Unbound
    /\ timeout = Unbound
    /\ graceful_timeout = Unbound
    /\ max_requests = Unbound
    /\ max_requests_jitter = Unbound

EnvIdle == EnvAt({NoArgs}, {"idle"})

StAt(files, strings, at) ==
    /\ uploaded_files \in files
    /\ stUrls \in strings
    /\ stpc = at
    /\ stDisk = {}
    /\ stMade = 0
    /\ local_paths = <<>>
    /\ downloaded_paths = <<>>
    /\ all_inputs = <<>>
    /\ stResults = <<>>
    /\ packaged = <<>>
    /\ stExc = "-"

StIdle == StAt({<<>>}, {<<>>}, "idle")

FrontIdle == CliIdle /\ EnvIdle /\ StIdle

\* the state of process_files at position at, before any of its steps
ProcessAt(batches, at) ==
    /\ input_files \in batches
    /\ hasCallback \in BOOLEAN
    /\ pc = at
    /\ index = 0
    /\ results = <<>>
    /\ dirs = {}
    /\ wavs = {}
    /\ demucsDirs = {}
    /\ vocalsFiles = {}
    /\ outputs = {}
    /\ vocals_path = <<>>
    /\ pending = "none"
    /\ linesRead = 0
    /\ lastLine = <<>>
    /\ seen = <<>>
    /\ lastProc = NoProc
    /\ normStarted = {}
    /\ cur = NoOutcome
    /\ okIdx = {}
    /\ failedIdx = {}
    /\ emitCalls = <<>>
    /\ delivered = <<>>
    /\ completeCount = 0

\* process_files is not called
ProcessIdle == ProcessAt({<<>>}, "idle") /\ hasCallback = FALSE

InitWith(batches) == ProcessAt(batches, "call") /\ YtIdle /\ WebStart /\ FrontIdle

Init == InitWith(Batches)

\* one file of every extension class
InitCodec == InitWith({ <<f>> : f \in CodecUniverse })

\* ------------------------------------------------------------ actions
Outcomes == {"ok", "fail", "raise"}

\* mutant: the non-zero exit is not handled and propagates too
PendingUnhandled(o) == IF o \in {"raise", "fail"} THEN "exception" ELSE "none"

\* what propagates after an outcome: except subprocess.CalledProcessError
\* handles the non-zero exit, any other exception goes on after the finally
Pending(o) == IF o = "raise" THEN "exception" ELSE "none"

\* the indices that failed with a non-zero exit, after outcome o of file idx
Failed(o, idx) == IF o = "fail" THEN failedIdx \cup {idx} ELSE failedIdx

\* the steps below leave the batch and the callback alone
Frame == UNCHANGED <<input_files, hasCallback, ytVars, webVars, frontVars>>

\* mutant: no early return for the empty batch
EmptyBatchUnchecked == FALSE

\* if not input_files
EmptyBatch == N = 0

\* process_files is called: the empty batch returns at once, otherwise the
\* three directories are made and the loop starts.
Enter ==
    /\ pc = "call"
    /\ IF EmptyBatch
       THEN /\ pc' = "done"
            /\ dirs' = dirs
       ELSE /\ pc' = IF N > 0 THEN "normalize" ELSE "finish"
            /\ dirs' = {"audio", "demucs", "output"}
    /\ emitCalls' = <<>>
    /\ delivered' = <<>>
    /\ Frame
    /\ UNCHANGED <<index, results, wavs, demucsDirs, vocalsFiles, outputs,
                   vocals_path, pending, linesRead, lastLine, seen, lastProc,
                   normStarted, cur, okIdx, failedIdx, completeCount>>

\* mutant: the exit code of the conversion is not checked
AfterNormalizeUnchecked(o) == "spawn"

\* subprocess.run(..., check=True): the try body goes on only after a zero
\* exit code
AfterNormalize(o) == IF o = "ok" THEN "spawn" ELSE "cleanup"

\* emit("prepare"), then ffmpeg converts the file to WAV (subprocess.run,
\* check=True); emit("convert") on success, the except clause's emit("error")
\* on a non-zero exit, nothing more when the call itself raises.
Normalize ==
    /\ pc = "normalize"
    /\ \E o \in Outcomes, partial \in BOOLEAN :
        LET calls == <<EmitCall("prepare", Frac(200))>> \o
                     (CASE o = "ok" -> <<EmitCall("convert", Frac(1800))>>
                        [] o = "fail" -> <<EmitCall("error", PerFileSpan)>>
                        [] OTHER -> <<>>)
        IN /\ cur' = [NoOutcome EXCEPT !.norm = o]
           /\ wavs' = IF o = "ok" \/ (o = "fail" /\ partial)
                      THEN wavs \cup {FileId(File)}
                      ELSE wavs
           /\ pending' = Pending(o)
           /\ failedIdx' = Failed(o, index)
           /\ pc' = AfterNormalize(o)
           /\ emitCalls' = calls
           /\ delivered' = Emit(index, calls)
    /\ lastProc' = [NoProc EXCEPT !.step = "normalize", !.index = index]
    /\ normStarted' = normStarted \cup {index}
    /\ linesRead' = 0
    /\ lastLine' = <<>>
    /\ seen' = <<>>
    /\ vocals_path' = <<>>
    /\ Frame
    /\ UNCHANGED <<index, results, dirs, demucsDirs, vocalsFiles, outputs,
                   okIdx, completeCount>>

\* emit("demucs", 0.22), then subprocess.Popen starts demucs (or raises).
Spawn ==
    /\ pc = "spawn"
    /\ \E o \in {"ok", "raise"} :
        /\ pc' = IF o = "ok" THEN "read" ELSE "cleanup"
        /\ pending' = Pending(o)
        /\ cur' = [cur EXCEPT !.sep = IF o = "ok" THEN "-" ELSE "raise"]
    /\ lastProc' = [NoProc EXCEPT !.step = "separate", !.index = index]
    /\ emitCalls' = <<EmitCall("demucs", Frac(2200))>>
    /\ delivered' = Emit(index, <<EmitCall("demucs", Frac(2200))>>)
    /\ Frame
    /\ UNCHANGED <<index, results, dirs, wavs, demucsDirs, vocalsFiles, outputs,
                   vocals_path, linesRead, lastLine, seen, normStarted, okIdx,
                   failedIdx, completeCount>>

\* one line of demucs' stderr: a matching line emits one "demucs" event
ReadLine ==
    /\ pc = "read"
    /\ linesRead < MaxLines
    /\ \E line \in LineUniverse :
        LET p == Search(line)
            calls == IF p >= 0
                     THEN <<EmitCall("demucs", DemucsFraction(Percent(p)))>>
                     ELSE <<>>
        IN /\ emitCalls' = calls
           /\ delivered' = Emit(index, calls)
           /\ lastLine' = line
           /\ seen' = IF p >= 0
                      THEN Append(seen, [p |-> p,
                                         fraction |-> calls[1].fraction,
                                         bounded |-> Bounded(index, calls[1].fraction)])
                      ELSE seen
    /\ linesRead' = linesRead + 1
    /\ Frame
    /\ UNCHANGED <<pc, index, results, dirs, wavs, demucsDirs, vocalsFiles,
                   outputs, vocals_path, pending, lastProc, normStarted, cur,
                   okIdx, failedIdx, completeCount>>

\* readline returns "": the stream is closed, stdout is closed
StreamClosed ==
    /\ pc = "read"
    /\ pc' = "wait"
    /\ emitCalls' = <<>>
    /\ delivered' = <<>>
    /\ lastLine' = <<>>
    /\ seen' = <<>>
    /\ linesRead' = 0
    /\ Frame
    /\ UNCHANGED <<index, results, dirs, wavs, demucsDirs, vocalsFiles, outputs,
                   vocals_path, pending, lastProc, normStarted, cur, okIdx,
                   failedIdx, completeCount>>

\* what demucs may leave under <temp root>/demucs for the id
Written(id) ==
    { [d |-> {}, v |-> {}],
      [d |-> {<<Model, id>>}, v |-> {}],
      [d |-> {<<Model, id>>}, v |-> {<<Model, id>>}],
      [d |-> {<<"alt", id>>}, v |-> {<<"alt", id>>}] }

\* mutant: the pattern names the model directory instead of *
GlobModelOnly(files, id) == { f \in files : f[1] = Model /\ f[2] = id }

\* glob.glob(<demucs root>/*/<id>/vocals.wav)
Glob(files, id) == { f \in files : f[2] = id }

\* demucs_proc.wait(): a non-zero code raises CalledProcessError; after a zero
\* code emit("demucs", 0.82) and locate vocals.wav: the expected path, else
\* the first glob match, else continue.
Wait ==
    /\ pc = "wait"
    /\ \E rc \in {0, 1}, w \in Written(FileId(File)) :
        LET vf == vocalsFiles \cup w.v
            matches == Glob(vf, FileId(File))
        IN /\ demucsDirs' = demucsDirs \cup w.d
           /\ vocalsFiles' = vf
           /\ pending' = Pending(IF rc # 0 THEN "fail" ELSE "ok")
           /\ failedIdx' = Failed(IF rc # 0 THEN "fail" ELSE "ok", index)
           /\ IF rc # 0
              THEN /\ cur' = [cur EXCEPT !.sep = "fail"]
                   /\ pc' = "cleanup"
                   /\ vocals_path' = <<>>
                   /\ emitCalls' = <<EmitCall("error", PerFileSpan)>>
                   /\ delivered' = Emit(index, <<EmitCall("error", PerFileSpan)>>)
              ELSE /\ emitCalls' = <<EmitCall("demucs", Frac(8200))>>
                   /\ delivered' = Emit(index, <<EmitCall("demucs", Frac(8200))>>)
                   /\ IF <<Model, FileId(File)>> \in vf
                      THEN /\ vocals_path' = <<Model, FileId(File)>>
                           /\ cur' = [cur EXCEPT !.sep = "ok", !.located = "expected"]
                           /\ pc' = "remux"
                      ELSE IF matches # {}
                      THEN /\ vocals_path' \in matches
                           /\ cur' = [cur EXCEPT !.sep = "ok", !.located = "alternate"]
                           /\ pc' = "remux"
                      ELSE /\ vocals_path' = <<>>
                           /\ cur' = [cur EXCEPT !.sep = "ok", !.located = "none"]
                           /\ pc' = "cleanup"
    /\ Frame
    /\ UNCHANGED <<index, results, dirs, wavs, outputs, linesRead, lastLine, seen,
                   lastProc, normStarted, okIdx, completeCount>>

\* the remux command built for the file
RemuxCmd(file, vocals) ==
    [step |-> "remux", index |-> index, vcopy |-> HasVideo(file),
     codec |-> Codec(file), ext |-> OutputExt(file), vocals |-> vocals]

\* the entry appended for a finished file
ResultOf(file) == [input |-> file, output |-> OutputPath(file), id |-> FileId(file)]

\* mutant: the entry is appended before the remux outcome is known
AppendResultAlways(res, o, file) == Append(res, ResultOf(file))

\* results.append(...) is reached only when the remux exited zero
AppendResult(res, o, file) == IF o = "ok" THEN Append(res, ResultOf(file)) ELSE res

\* ffmpeg writes the final output (subprocess.run, check=True); on success
\* emit("mux"), append the result, emit("file_complete").
Remux ==
    /\ pc = "remux"
    /\ \E o \in Outcomes :
        LET calls == CASE o = "ok" -> <<EmitCall("mux", Frac(9500)),
                                        EmitCall("file_complete", Frac(10000))>>
                       [] o = "fail" -> <<EmitCall("error", PerFileSpan)>>
                       [] OTHER -> <<>>
        IN /\ cur' = [cur EXCEPT !.remux = o]
           /\ results' = AppendResult(results, o, File)
           /\ outputs' = IF o = "ok" THEN outputs \cup {OutputPath(File)} ELSE outputs
           /\ pending' = Pending(o)
           /\ failedIdx' = Failed(o, index)
           /\ emitCalls' = calls
           /\ delivered' = Emit(index, calls)
    /\ lastProc' = RemuxCmd(File, vocals_path)
    /\ pc' = "cleanup"
    /\ Frame
    /\ UNCHANGED <<index, dirs, wavs, demucsDirs, vocalsFiles, vocals_path,
                   linesRead, lastLine, seen, normStarted, okIdx, completeCount>>

\* the directory the finally block removes
DemucsCandidate(file) == <<Model, FileId(file)>>

\* mutant: the WAV is removed only at the end of the try body, as in the
\* older CLI script
UnlinkedOnSuccess(ws, file) == IF cur.remux = "ok" THEN ws \ {FileId(file)} ELSE ws

\* if wav_path.exists(): wav_path.unlink()
Unlinked(ws, file) == ws \ {FileId(file)}

\* finally: unlink the WAV, rmtree <demucs root>/<model>/<id>; then the next
\* file, the end of the loop, or the propagating exception.
Cleanup ==
    /\ pc = "cleanup"
    /\ wavs' = Unlinked(wavs, File)
    /\ demucsDirs' = demucsDirs \ {DemucsCandidate(File)}
    /\ vocalsFiles' = vocalsFiles \ {DemucsCandidate(File)}
    /\ okIdx' = IF cur.norm = "ok" /\ cur.sep = "ok" /\ cur.remux = "ok"
                   /\ cur.located \in {"expected", "alternate"}
                THEN okIdx \cup {index}
                ELSE okIdx
    /\ IF pending = "exception"
       THEN /\ pc' = "raised"
            /\ index' = index
       ELSE IF index + 1 < N
       THEN /\ pc' = "normalize"
            /\ index' = index + 1
       ELSE /\ pc' = "finish"
            /\ index' = index
    /\ emitCalls' = <<>>
    /\ delivered' = <<>>
    /\ Frame
    /\ UNCHANGED <<results, dirs, outputs, vocals_path, pending, linesRead,
                   lastLine, seen, lastProc, normStarted, cur, failedIdx,
                   completeCount>>

\* after the loop: the final "complete" event, then return results
Finish ==
    /\ pc = "finish"
    /\ pc' = "done"
    /\ emitCalls' = <<>>
    /\ delivered' = IF hasCallback
                    THEN <<[stage |-> "complete", fraction |-> FinalFraction]>>
                    ELSE <<>>
    /\ completeCount' = IF hasCallback THEN completeCount + 1 ELSE completeCount
    /\ Frame
    /\ UNCHANGED <<index, results, dirs, wavs, demucsDirs, vocalsFiles, outputs,
                   vocals_path, pending, linesRead, lastLine, seen, lastProc,
                   normStarted, cur, okIdx, failedIdx>>

Next ==
    \/ Enter
    \/ Normalize
    \/ Spawn
    \/ ReadLine
    \/ StreamClosed
    \/ Wait
    \/ Remux
    \/ Cleanup
    \/ Finish

Spec == Init /\ [][Next]_vars

SpecCodec == InitCodec /\ [][Next]_vars

\* distinct files that share a stem
InitStem == InitWith(StemBatches)

SpecStem == InitStem /\ [][Next]_vars

\* ------------------------------------------------------------ download_from_youtube
\* A string is a sequence of tokens: the two markers, "&", "?", the blank " "
\* and pieces of other text.
Watch == "youtube.com/watch?v="
Short == "youtu.be/"

\* the position of the first tok of s at or after from, 0 if there is none
IndexOf(s, tok, from) ==
    LET hits == { i \in from..Len(s) : s[i] = tok }
    IN IF hits = {} THEN 0 ELSE CHOOSE i \in hits : \A j \in hits : i <= j

\* tok in s
Contains(s, tok) == IndexOf(s, tok, 1) # 0

\* s.split(tok)[0]
SplitHead(s, tok) ==
    LET i == IndexOf(s, tok, 1)
    IN IF i = 0 THEN s ELSE SubSeq(s, 1, i - 1)

\* s.split(tok)[1], for an s that contains tok
SplitSecond(s, tok) ==
    SplitHead(SubSeq(s, IndexOf(s, tok, 1) + 1, Len(s)), tok)

\* s.strip()
Strip(s) ==
    LET keep == { i \in 1..Len(s) : s[i] # " " }
    IN IF keep = {}
       THEN <<>>
       ELSE SubSeq(s, CHOOSE i \in keep : \A j \in keep : i <= j,
                      CHOOSE i \in keep : \A j \in keep : j <= i)

\* mutant: the single string is taken as one target
SplitWsNot(s) == <<s>>

\* re.split(r"\s+", s) for a stripped s
RECURSIVE SplitWs(_)
SplitWs(s) ==
    LET i == IndexOf(s, " ", 1)
    IN IF i = 0
       THEN <<s>>
       ELSE LET j == CHOOSE k \in i..Len(s) :
                        s[k] # " " /\ \A m \in i..(k - 1) : s[m] = " "
            IN <<SubSeq(s, 1, i - 1)>> \o SplitWs(SubSeq(s, j, Len(s)))

\* not urls: the empty list and the empty string
Falsy(arg) == arg.val = <<>>

\* the list the loop runs over
Targets(arg) == IF arg.kind = "str" THEN SplitWs(Strip(arg.val)) ELSE arg.val

\* the video identifier of a stripped url at time t
VideoId(url, t) ==
    IF Contains(url, Watch)
    THEN SplitHead(SplitSecond(url, Watch), "&")
    ELSE IF Contains(url, Short)
         THEN SplitHead(SplitSecond(url, Short), "?")
         ELSE <<"yt_", ToString(t)>>

\* download_root / f"{video_id}.mp4"
YtOutputPath(video_id) == [root |-> "media", id |-> video_id, ext |-> "mp4"]

\* mutant: a zero exit is taken as a downloaded file
ExistsUnchecked(files, video_id) == TRUE

\* output_path.exists()
Exists(files, video_id) == video_id \in files

\* the targets
UWatch == <<"https://", Watch, "abc", "&", "t=1">>
UShort == <<"https://", Short, "xyz", "?", "t=1">>
UOther == <<"https://", "example.com/v">>
UBoth == <<"https://", Short, "abc", "?", "next=", Watch, "zzz", "&", "x">>
UPadded == <<" ", "https://", Short, "abc", " ">>
UBlank == <<" ">>
UEmpty == <<>>

UrlUniverse == {UWatch, UShort, UOther, UBoth, UPadded, UBlank, UEmpty}

\* the single strings
SEmpty == <<>>
SBlank == <<" ", " ">>
SOne == UShort
STwo == <<" ">> \o UWatch \o <<" ", " ">> \o UOther \o <<" ">>

StrUniverse == {SEmpty, SBlank, SOne, STwo}

UrlArgs ==
    { [kind |-> "list", val |-> l] :
        l \in UNION { [1..n -> UrlUniverse] : n \in 0..MaxTargets } }
    \cup { [kind |-> "str", val |-> x] : x \in StrUniverse }

\* the download directory before the call: empty, or with a file of an
\* earlier call
MediaUniverse == { {}, {<<"abc">>} }

\* download_from_youtube is called
InitYt == ProcessIdle /\ YtAt(UrlArgs, MediaUniverse, "call") /\ WebStart /\ FrontIdle

YtOutcomes == {"ok", "nofile", "fail", "raise"}

\* if not urls: return []; else the split, the download root and the loop
YtCall ==
    /\ ytpc = "call"
    /\ IF Falsy(urls)
       THEN /\ ytpc' = "returned"
            /\ UNCHANGED <<targets, rootMade>>
       ELSE /\ ytpc' = "loop"
            /\ targets' = Targets(urls)
            /\ rootMade' = TRUE
    /\ UNCHANGED <<urls, yti, downloaded, media, now, ytRuns, coreVars, webVars, frontVars>>

\* a blank target: continue
YtSkip ==
    /\ ytpc = "loop"
    /\ yti <= Len(targets)
    /\ Strip(targets[yti]) = <<>>
    /\ yti' = yti + 1
    /\ UNCHANGED <<urls, ytpc, targets, downloaded, media, rootMade, now,
                   ytRuns, coreVars, webVars, frontVars>>

\* one target: the identifier, the downloader run and the check of its file.
\* ok: exit 0 and the file written; nofile: exit 0 and nothing written;
\* fail: CalledProcessError; raise: any other exception of subprocess.run
YtDownload ==
    /\ ytpc = "loop"
    /\ yti <= Len(targets)
    /\ LET url == Strip(targets[yti])
       IN /\ url # <<>>
          /\ \E t \in now..Min(now + 1, MaxNow), o \in YtOutcomes :
                LET video_id == VideoId(url, t)
                    output_path == YtOutputPath(video_id)
                    files == IF o = "ok" THEN media \cup {video_id} ELSE media
                IN /\ now' = t
                   /\ media' = files
                   /\ ytRuns' = Append(ytRuns,
                                   [target |-> yti, url |-> url, at |-> t,
                                    out |-> output_path, outcome |-> o,
                                    there |-> video_id \in files])
                   /\ downloaded' =
                        IF o \in {"ok", "nofile"} /\ Exists(files, video_id)
                        THEN Append(downloaded, output_path)
                        ELSE downloaded
                   /\ IF o = "raise"
                      THEN ytpc' = "raised" /\ yti' = yti
                      ELSE ytpc' = "loop" /\ yti' = yti + 1
    /\ UNCHANGED <<urls, targets, rootMade, coreVars, webVars, frontVars>>

\* return downloaded
YtReturn ==
    /\ ytpc = "loop"
    /\ yti > Len(targets)
    /\ ytpc' = "returned"
    /\ UNCHANGED <<urls, targets, yti, downloaded, media, rootMade, now,
                   ytRuns, coreVars, webVars, frontVars>>

NextYt ==
    \/ YtCall
    \/ YtSkip
    \/ YtDownload
    \/ YtReturn

SpecYt == InitYt /\ [][NextYt]_vars

\* ------------------------------------------------------------ web layer: submit
\* ALLOWED_EXTENSIONS
WebAllowed == {"mp3", "wav", "ogg", "m4a", "aac", "opus", "flac", "mp4", "mov",
               "avi", "mkv", "webm"}

\* secure_filename on the names the model draws: the dots at both ends go
RECURSIVE SecureFilename(_)
SecureFilename(name) ==
    IF name = <<>> THEN <<>>
    ELSE IF Head(name) = "" THEN SecureFilename(Tail(name))
    ELSE IF name[Len(name)] = "" THEN SecureFilename(SubSeq(name, 1, Len(name) - 1))
    ELSE name

\* mutant: every file name is accepted
AllowedFileAny(name) == TRUE

\* allowed_file: "." in filename and the text after the last dot, lowered,
\* is in the allow-list
AllowedFile(name) == Len(name) >= 2 /\ Lower(name[Len(name)]) \in WebAllowed

\* not upload or upload.filename == ""
NoFile(upload) == ~ upload.present \/ upload.filename = <<"">>

Upload(name) == [present |-> TRUE, filename |-> name]

UploadUniverse ==
    { NoUpload, Upload(<<"">>), Upload(<<"song", "mp3">>),
      Upload(<<"clip", "MP4">>), Upload(<<"notes", "txt">>),
      Upload(<<"noext">>), Upload(<<"", "mp3">>) }

\* the identifiers handed out so far
Created == { t \in TaskIds : task[t].status # "none" }

\* ProcessingTask(..., progress=5.0, message="Upload complete. ...")
NewTask(filename) ==
    [status |-> "queued", progress |-> 500, message |-> "uploaded",
     output_path |-> NoPath, download_name |-> <<>>, error |-> "None",
     saved |-> filename]

\* the per-step outputs of a step that answers nothing and keeps to the mutex
Quiet == resp' = NoResp /\ unlocked' = {}

Refused(upload, error) ==
    /\ resp' = [NoResp EXCEPT !.handler = "submit", !.code = 400,
                              !.error = error, !.upload = upload]
    /\ unlocked' = {}
    /\ UNCHANGED <<registry, task, workDirs, outFiles, lock, worker, poller,
                   fetcher, closedIds>>

\* POST /api/process
Submit ==
    /\ \E upload \in UploadUniverse :
          LET filename == SecureFilename(upload.filename)
              task_id == Cardinality(Created) + 1
          IN IF NoFile(upload) THEN Refused(upload, "no_file")
             ELSE IF ~ AllowedFile(filename) THEN Refused(upload, "invalid_type")
             ELSE /\ task_id \in TaskIds
                  /\ lock = 0
                  /\ workDirs' = workDirs \cup {task_id}
                  /\ task' = [task EXCEPT ![task_id] = NewTask(filename)]
                  /\ registry' = registry \cup {task_id}
                  /\ worker' = [worker EXCEPT ![task_id].pc = "start"]
                  /\ resp' = [NoResp EXCEPT !.handler = "submit", !.code = 200,
                                            !.id = task_id, !.upload = upload]
                  /\ unlocked' = {}
                  /\ UNCHANGED <<outFiles, lock, poller, fetcher, closedIds>>
    /\ UNCHANGED <<coreVars, ytVars, frontVars>>

\* ------------------------------------------------------------ web layer: worker
\* process_files as the worker sees it, for its one file: "prepare" comes
\* first, other events follow, then either an exception or the "complete"
\* event and the result list. Fractions are in hundredths.
PrepareEvent == [stage |-> "prepare", fraction |-> 2]
CompleteEvent == [stage |-> "complete", fraction |-> 100]

EventUniverse ==
    { [stage |-> "convert", fraction |-> 18],
      [stage |-> "demucs", fraction |-> 52],
      [stage |-> "error", fraction |-> 100] }

\* mutant: the incoming value replaces the current one
IncomingProgress(current, fraction) == fraction * 100

\* max(current.progress, fraction * 100), in hundredths of a percent
NewProgress(current, fraction) == Max(current, fraction * 100)

\* mutant: an empty result list is not looked at
NoResultsIgnored(res) == FALSE

\* not results
NoResults(res) == res = <<>>

\* the result list of process_files for the task's file
ResultList(t, outcome) ==
    IF outcome = "result"
    THEN << [output |-> [dir |-> t, id |-> Stem(task[t].saved),
                         ext |-> OutputExt([name |-> task[t].saved])]] >>
    ELSE <<>>

WebFrame == UNCHANGED <<coreVars, ytVars, frontVars>>

\* with _TASK_LOCK: task = _TASKS.get(task_id); if task is None: return
WorkerStart(t) ==
    /\ worker[t].pc = "start"
    /\ lock = 0
    /\ worker' = [worker EXCEPT ![t].pc = IF t \in registry THEN "prepare" ELSE "end"]
    /\ Quiet
    /\ WebFrame
    /\ UNCHANGED <<registry, task, workDirs, outFiles, lock, poller, fetcher,
                   closedIds>>

\* process_files calls the callback
Calls(t, event, back) ==
    /\ worker' = [worker EXCEPT ![t].pc = "u_status", ![t].event = event,
                                ![t].back = back]
    /\ Quiet
    /\ WebFrame
    /\ UNCHANGED <<registry, task, workDirs, outFiles, lock, poller, fetcher,
                   closedIds>>

ProcessPrepare(t) ==
    /\ worker[t].pc = "prepare"
    /\ Calls(t, PrepareEvent, "mid")

ProcessEmit(t) ==
    /\ worker[t].pc = "mid"
    /\ worker[t].sent < MaxEvents
    /\ \E e \in EventUniverse :
          /\ worker' = [worker EXCEPT ![t].pc = "u_status", ![t].event = e,
                                      ![t].back = "mid", ![t].sent = @ + 1]
    /\ Quiet
    /\ WebFrame
    /\ UNCHANGED <<registry, task, workDirs, outFiles, lock, poller, fetcher,
                   closedIds>>

\* after the loop: the "complete" event
ProcessComplete(t) ==
    /\ worker[t].pc = "mid"
    /\ Calls(t, CompleteEvent, "returning")

\* mutant: the exception is not caught and ends the thread
CaughtNot(exc) == FALSE

\* except Exception as exc
Caught(exc) == exc = "Exception"

\* an exception leaves process_files: except Exception
ProcessRaise(t) ==
    /\ worker[t].pc = "mid"
    /\ worker' = [worker EXCEPT
                    ![t].pc = IF Caught("Exception") THEN "e_status" ELSE "end",
                    ![t].outcome = "raise"]
    /\ Quiet
    /\ WebFrame
    /\ UNCHANGED <<registry, task, workDirs, outFiles, lock, poller, fetcher,
                   closedIds>>

\* process_files returns: no result, or one whose file was written or not
ProcessReturn(t) ==
    /\ worker[t].pc = "returning"
    /\ \E o \in {"empty", "result"}, written \in BOOLEAN :
          LET res == ResultList(t, o)
          IN /\ o = "empty" => ~ written
             /\ outFiles' = IF written THEN outFiles \cup {t} ELSE outFiles
             /\ worker' = [worker EXCEPT
                             ![t].outcome = o,
                             ![t].output = IF res = <<>> THEN NoPath
                                           ELSE res[1].output,
                             ![t].pc = IF NoResults(res) THEN "e_status"
                                       ELSE "c_status"]
    /\ Quiet
    /\ WebFrame
    /\ UNCHANGED <<registry, task, workDirs, lock, poller, fetcher, closedIds>>

\* mutant: update() leaves the status alone
UpdatedStatusKept(current) == current

\* current.status = "running"
UpdatedStatus(current) == "running"

\* update(): with _TASK_LOCK, current = _TASKS.get(task_id), status = "running"
UpdateStatus(t) ==
    /\ worker[t].pc = "u_status"
    /\ lock = 0
    /\ IF t \in registry
       THEN /\ lock' = t
            /\ task' = [task EXCEPT ![t].status = UpdatedStatus(@)]
            /\ worker' = [worker EXCEPT ![t].pc = "u_progress"]
       ELSE /\ worker' = [worker EXCEPT ![t].pc = worker[t].back]
            /\ UNCHANGED <<lock, task>>
    /\ Quiet
    /\ WebFrame
    /\ UNCHANGED <<registry, workDirs, outFiles, poller, fetcher, closedIds>>

UpdateProgress(t) ==
    /\ worker[t].pc = "u_progress"
    /\ task' = [task EXCEPT
                  ![t].progress = NewProgress(@, worker[t].event.fraction)]
    /\ worker' = [worker EXCEPT ![t].pc = "u_message"]
    /\ Quiet
    /\ WebFrame
    /\ UNCHANGED <<registry, workDirs, outFiles, lock, poller, fetcher,
                   closedIds>>

\* the message, and the mutex is released
UpdateMessage(t) ==
    /\ worker[t].pc = "u_message"
    /\ task' = [task EXCEPT ![t].message = worker[t].event.stage]
    /\ worker' = [worker EXCEPT ![t].pc = worker[t].back]
    /\ lock' = 0
    /\ Quiet
    /\ WebFrame
    /\ UNCHANGED <<registry, workDirs, outFiles, poller, fetcher, closedIds>>

\* the two error blocks: with _TASK_LOCK, if current is not None: status
ErrorStatus(t) ==
    /\ worker[t].pc = "e_status"
    /\ lock = 0
    /\ IF t \in registry
       THEN /\ lock' = t
            /\ task' = [task EXCEPT ![t].status = "error"]
            /\ worker' = [worker EXCEPT ![t].pc = "e_message"]
       ELSE /\ worker' = [worker EXCEPT ![t].pc = "end"]
            /\ UNCHANGED <<lock, task>>
    /\ Quiet
    /\ WebFrame
    /\ UNCHANGED <<registry, workDirs, outFiles, poller, fetcher, closedIds>>

ErrorMessage(t) ==
    /\ worker[t].pc = "e_message"
    /\ task' = [task EXCEPT
                  ![t].message = IF worker[t].outcome = "raise"
                                 THEN "Processing failed. Please try again."
                                 ELSE "No output was produced. Please try a different file."]
    /\ worker' = [worker EXCEPT ![t].pc = "e_error"]
    /\ Quiet
    /\ WebFrame
    /\ UNCHANGED <<registry, workDirs, outFiles, lock, poller, fetcher,
                   closedIds>>

\* error = str(exc) or "no_output", and the mutex is released
ErrorField(t) ==
    /\ worker[t].pc = "e_error"
    /\ task' = [task EXCEPT
                  ![t].error = IF worker[t].outcome = "raise"
                               THEN "str(exc)" ELSE "no_output"]
    /\ worker' = [worker EXCEPT ![t].pc = "end"]
    /\ lock' = 0
    /\ Quiet
    /\ WebFrame
    /\ UNCHANGED <<registry, workDirs, outFiles, poller, fetcher, closedIds>>

\* the success block: with _TASK_LOCK, if current is None: return, status
CompletedStatus(t) ==
    /\ worker[t].pc = "c_status"
    /\ lock = 0
    /\ IF t \in registry
       THEN /\ lock' = t
            /\ task' = [task EXCEPT ![t].status = "completed"]
            /\ worker' = [worker EXCEPT ![t].pc = "c_progress"]
       ELSE /\ worker' = [worker EXCEPT ![t].pc = "end"]
            /\ UNCHANGED <<lock, task>>
    /\ Quiet
    /\ WebFrame
    /\ UNCHANGED <<registry, workDirs, outFiles, poller, fetcher, closedIds>>

CompletedProgress(t) ==
    /\ worker[t].pc = "c_progress"
    /\ task' = [task EXCEPT ![t].progress = 10000]
    /\ worker' = [worker EXCEPT ![t].pc = "c_message"]
    /\ Quiet
    /\ WebFrame
    /\ UNCHANGED <<registry, workDirs, outFiles, lock, poller, fetcher,
                   closedIds>>

CompletedMessage(t) ==
    /\ worker[t].pc = "c_message"
    /\ task' = [task EXCEPT
                  ![t].message = "Demucs separation complete! Preparing download..."]
    /\ worker' = [worker EXCEPT ![t].pc = "c_output"]
    /\ Quiet
    /\ WebFrame
    /\ UNCHANGED <<registry, workDirs, outFiles, lock, poller, fetcher,
                   closedIds>>

CompletedOutput(t) ==
    /\ worker[t].pc = "c_output"
    /\ task' = [task EXCEPT ![t].output_path = worker[t].output]
    /\ worker' = [worker EXCEPT ![t].pc = "c_name"]
    /\ Quiet
    /\ WebFrame
    /\ UNCHANGED <<registry, workDirs, outFiles, lock, poller, fetcher,
                   closedIds>>

\* download_name, and the mutex is released
CompletedName(t) ==
    /\ worker[t].pc = "c_name"
    /\ task' = [task EXCEPT
                  ![t].download_name =
                      Stem(task[t].saved) \o <<"_vocals", worker[t].output.ext>>]
    /\ worker' = [worker EXCEPT ![t].pc = "end"]
    /\ lock' = 0
    /\ Quiet
    /\ WebFrame
    /\ UNCHANGED <<registry, workDirs, outFiles, poller, fetcher, closedIds>>

\* ------------------------------------------------------------ web layer: poll
Answer(handler, code, id, payload) ==
    [NoResp EXCEPT !.handler = handler, !.code = code, !.id = id,
                   !.payload = payload]

\* GET /api/progress/<id>: with _TASK_LOCK: task = _TASKS.get(task_id);
\* if task is None: raise NotFound()
PollLookup(id) ==
    /\ poller.pc = "idle"
    /\ lock = 0
    /\ IF id \in registry
       THEN /\ poller' = [pc |-> "status", id |-> id, payload |-> NoPayload]
            /\ resp' = NoResp
       ELSE /\ poller' = IdleHandler
            /\ resp' = Answer("poll", 404, id, NoPayload)
    /\ unlocked' = {}
    /\ WebFrame
    /\ UNCHANGED <<registry, task, workDirs, outFiles, lock, worker, fetcher,
                   closedIds>>

\* one field of the payload is read from the task object, after the with block
PollRead(at, field, next) ==
    /\ poller.pc = at
    /\ poller' = [poller EXCEPT !.pc = next,
                                !.payload[field] = task[poller.id][field]]
    /\ resp' = NoResp
    /\ unlocked' = {[by |-> "poll", op |-> "read", field |-> field]}
    /\ WebFrame
    /\ UNCHANGED <<registry, task, workDirs, outFiles, lock, worker, fetcher,
                   closedIds>>

PollStatus == PollRead("status", "status", "progress")
PollProgress == PollRead("progress", "progress", "message")
PollMessage == PollRead("message", "message", "error")
PollError == PollRead("error", "error", "ready")

\* download_ready = bool(task.output_path and task.status == "completed"),
\* and the payload is sent
PollReady ==
    /\ poller.pc = "ready"
    /\ LET ready == /\ task[poller.id].output_path # NoPath
                    /\ task[poller.id].status = "completed"
           payload == [poller.payload EXCEPT !.download_ready = ready]
       IN resp' = Answer("poll", 200, poller.id, payload)
    /\ poller' = IdleHandler
    /\ unlocked' = {[by |-> "poll", op |-> "read", field |-> "output_path"]}
    /\ WebFrame
    /\ UNCHANGED <<registry, task, workDirs, outFiles, lock, worker, fetcher,
                   closedIds>>

\* ------------------------------------------------------------ web layer: fetch
\* GET /api/download/<id>: with _TASK_LOCK: task = _TASKS.get(task_id);
\* task is None: raise NotFound()
FetchLookup(f, id) ==
    /\ f \in DOMAIN fetcher
    /\ fetcher[f].pc = "idle"
    /\ lock = 0
    /\ IF id \in registry
       THEN /\ fetcher' = [fetcher EXCEPT ![f] = [pc |-> "check", id |-> id,
                                                   payload |-> NoPayload]]
            /\ resp' = NoResp
       ELSE /\ fetcher' = [fetcher EXCEPT ![f] = IdleHandler]
            /\ resp' = Answer("fetch", 404, id, NoPayload)
    /\ unlocked' = {}
    /\ WebFrame
    /\ UNCHANGED <<registry, task, workDirs, outFiles, lock, worker, poller,
                   closedIds>>

\* mutant: the output path is not looked at
NotReadyIgnored(t) == FALSE

\* task.output_path is None or not task.output_path.exists()
NotReady(t) == task[t].output_path = NoPath \/ t \notin outFiles

\* NotFound, or send_file and the stream is open
FetchCheck(f) ==
    /\ f \in DOMAIN fetcher
    /\ fetcher[f].pc = "check"
    /\ IF NotReady(fetcher[f].id)
       THEN /\ fetcher' = [fetcher EXCEPT ![f] = IdleHandler]
            /\ resp' = Answer("fetch", 404, fetcher[f].id, NoPayload)
       ELSE /\ fetcher' = [fetcher EXCEPT ![f].pc = "streaming"]
            /\ resp' = Answer("fetch", 200, fetcher[f].id, NoPayload)
    /\ unlocked' = {[by |-> "fetch", op |-> "read", field |-> "output_path"]}
    /\ WebFrame
    /\ UNCHANGED <<registry, task, workDirs, outFiles, lock, worker, poller,
                   closedIds>>

\* mutant: the task stays in the registry
PoppedNot(reg, id) == reg

\* _TASKS.pop(task_id, None)
Popped(reg, id) == reg \ {id}

\* mutant: the result of the pop is not looked at
TaskFoundAlways(reg, id) == TRUE

\* if task is None: return
TaskFound(reg, id) == id \in reg

\* the stream closes: _finalize_task, with _TASK_LOCK: task = _TASKS.pop(...)
FetchClose(f) ==
    /\ f \in DOMAIN fetcher
    /\ fetcher[f].pc = "streaming"
    /\ lock = 0
    /\ registry' = Popped(registry, fetcher[f].id)
    /\ fetcher' = [fetcher EXCEPT ![f] = IF TaskFound(registry, fetcher[f].id)
                                        THEN [@ EXCEPT !.pc = "rmtree"]
                                        ELSE IdleHandler]
    /\ Quiet
    /\ WebFrame
    /\ UNCHANGED <<task, workDirs, outFiles, lock, worker, poller, closedIds>>

\* shutil.rmtree(task.work_dir, ignore_errors=True)
FetchRmtree(f) ==
    /\ f \in DOMAIN fetcher
    /\ fetcher[f].pc = "rmtree"
    /\ workDirs' = workDirs \ {fetcher[f].id}
    /\ outFiles' = outFiles \ {fetcher[f].id}
    /\ closedIds' = closedIds \cup {fetcher[f].id}
    /\ fetcher' = [fetcher EXCEPT ![f] = IdleHandler]
    /\ Quiet
    /\ WebFrame
    /\ UNCHANGED <<registry, task, lock, worker, poller>>

InitWeb == ProcessIdle /\ YtIdle /\ WebStart /\ FrontIdle

NextWeb ==
    \/ Submit
    \/ \E t \in TaskIds : WorkerStart(t)
    \/ \E t \in TaskIds : ProcessPrepare(t)
    \/ \E t \in TaskIds : ProcessEmit(t)
    \/ \E t \in TaskIds : ProcessComplete(t)
    \/ \E t \in TaskIds : ProcessRaise(t)
    \/ \E t \in TaskIds : ProcessReturn(t)
    \/ \E t \in TaskIds : UpdateStatus(t)
    \/ \E t \in TaskIds : UpdateProgress(t)
    \/ \E t \in TaskIds : UpdateMessage(t)
    \/ \E t \in TaskIds : ErrorStatus(t)
    \/ \E t \in TaskIds : ErrorMessage(t)
    \/ \E t \in TaskIds : ErrorField(t)
    \/ \E t \in TaskIds : CompletedStatus(t)
    \/ \E t \in TaskIds : CompletedProgress(t)
    \/ \E t \in TaskIds : CompletedMessage(t)
    \/ \E t \in TaskIds : CompletedOutput(t)
    \/ \E t \in TaskIds : CompletedName(t)
    \/ \E id \in RequestIds : PollLookup(id)
    \/ PollStatus
    \/ PollProgress
    \/ PollMessage
    \/ PollError
    \/ PollReady
    \/ \E f \in DownloadThreads, id \in RequestIds : FetchLookup(f, id)
    \/ \E f \in DownloadThreads : FetchCheck(f)
    \/ \E f \in DownloadThreads : FetchClose(f)
    \/ \E f \in DownloadThreads : FetchRmtree(f)

SpecWeb == InitWeb /\ [][NextWeb]_vars

\* two downloads may be in flight at once
InitWebTwo == ProcessIdle /\ YtIdle /\ WebStartWith(DownloadThreads) /\ FrontIdle

SpecWebTwo == InitWebTwo /\ [][NextWeb]_vars

\* a step of the background thread of task t
WorkerStep(t) ==
    \/ WorkerStart(t)
    \/ ProcessPrepare(t)
    \/ ProcessEmit(t)
    \/ ProcessComplete(t)
    \/ ProcessRaise(t)
    \/ ProcessReturn(t)
    \/ UpdateStatus(t)
    \/ UpdateProgress(t)
    \/ UpdateMessage(t)
    \/ ErrorStatus(t)
    \/ ErrorMessage(t)
    \/ ErrorField(t)
    \/ CompletedStatus(t)
    \/ CompletedProgress(t)
    \/ CompletedMessage(t)
    \/ CompletedOutput(t)
    \/ CompletedName(t)

\* the started thread is scheduled again and again, and process_files
\* comes back
SpecWebFair == SpecWeb /\ \A t \in TaskIds : WF_vars(WorkerStep(t))

\* ------------------------------------------------------------ command-line script
\* An input is a string, a sequence of tokens as above; a local path is one
\* token.
IHttps == UWatch
IHttp == <<"http://", "example.com/v">>
IFtp == <<"ftp://", "example.com/v">>
IUpper == <<"HTTPS://", Short, "xyz">>
ILocal == <<"a/song.mp3">>
IMissing == <<"missing.mp3">>

InputUniverse == {IHttps, IHttp, IFtp, IUpper, ILocal, IMissing}

\* the local files on disk when main starts
Disk == {ILocal}

\* nargs='+': at least one input
CliArgs == UNION { [1..n -> InputUniverse] : n \in 1..MaxInputs }

\* input_item.startswith(('http://', 'https://'))
StartsWithHttp(item) == item # <<>> /\ item[1] \in {"http://", "https://"}

\* the elements of s at the positions in keep, in order
Pick(s, keep) ==
    LET F[i \in 0..Len(s)] ==
            IF i = 0 THEN <<>>
            ELSE IF i \in keep THEN Append(F[i - 1], s[i]) ELSE F[i - 1]
    IN F[Len(s)]

\* video_output = f"/media/{video_id}.mp4" of the script's own downloader
MediaFile(url) == <<"/media/">> \o VideoId(url, 0) \o <<".mp4">>

\* a file the script's process_files can read
Readable(f) == f \in Disk \/ f[1] = "/media/"

\* mutant: main always returns normally after processing
ReportCodeZero(res) == 0

\* if results: ... else: sys.exit(1)
ReportCode(res) == IF res = <<>> THEN 1 ELSE 0

CliFrame == UNCHANGED <<coreVars, ytVars, webVars, envVars, stVars>>

\* the loop over args.inputs
CliClassify ==
    /\ clipc = "call"
    /\ youtube_urls' = SelectSeq(inputs, StartsWithHttp)
    /\ local_files' =
          Pick(inputs, { i \in 1..Len(inputs) : ~ StartsWithHttp(inputs[i]) })
    /\ clipc' = "download"
    /\ CliFrame
    /\ UNCHANGED <<inputs, yt_files, all_files, processArg, cliResults, cliLog,
                   exitCode>>

\* yt_files = download_from_youtube(youtube_urls) if youtube_urls else [];
\* the script's downloader catches every exception and returns the files
\* of the runs that worked
CliDownload ==
    /\ clipc = "download"
    /\ \E got \in SUBSET (1..Len(youtube_urls)) :
          LET files == [i \in 1..Len(youtube_urls) |-> MediaFile(youtube_urls[i])]
          IN /\ yt_files' = Pick(files, got)
             /\ all_files' = local_files \o Pick(files, got)
    /\ clipc' = "check"
    /\ CliFrame
    /\ UNCHANGED <<inputs, youtube_urls, local_files, processArg, cliResults,
                   cliLog, exitCode>>

\* if not all_files: sys.exit(1)
CliCheck ==
    /\ clipc = "check"
    /\ IF all_files = <<>>
       THEN /\ cliLog' = "No valid input files found."
            /\ exitCode' = 1
            /\ clipc' = "exited"
       ELSE /\ clipc' = "process"
            /\ UNCHANGED <<cliLog, exitCode>>
    /\ CliFrame
    /\ UNCHANGED <<inputs, youtube_urls, local_files, yt_files, all_files,
                   processArg, cliResults>>

\* results = process_files(all_files, model=args.model): the script's
\* process_files catches every exception of a file, so it returns the files
\* whose three steps worked; none of them works on a file that is not there
CliProcess ==
    /\ clipc = "process"
    /\ processArg' = Append(processArg, all_files)
    /\ \E ok \in SUBSET { i \in 1..Len(all_files) : Readable(all_files[i]) } :
          cliResults' = Pick(all_files, ok)
    /\ clipc' = "report"
    /\ CliFrame
    /\ UNCHANGED <<inputs, youtube_urls, local_files, yt_files, all_files,
                   cliLog, exitCode>>

\* the report and the exit code
CliReport ==
    /\ clipc = "report"
    /\ exitCode' = ReportCode(cliResults)
    /\ cliLog' = IF cliResults = <<>>
                 THEN "No files were successfully processed."
                 ELSE "Output files saved to the output directory."
    /\ clipc' = "exited"
    /\ CliFrame
    /\ UNCHANGED <<inputs, youtube_urls, local_files, yt_files, all_files,
                   processArg, cliResults>>

InitCli ==
    ProcessIdle /\ YtIdle /\ WebStart /\ CliAt(CliArgs, "call") /\ EnvIdle
        /\ StIdle

NextCli ==
    \/ CliClassify
    \/ CliDownload
    \/ CliCheck
    \/ CliProcess
    \/ CliReport

SpecCli == InitCli /\ [][NextCli]_vars

\* ------------------------------------------------------------ gunicorn.conf.py
\* A raw value is a string, a sequence of characters.
REmpty == Raw(<<>>)
RBlank == Raw(<<" ">>)
R5 == Raw(<<"5">>)
RPad7 == Raw(<<" ", "7", " ">>)
RNeg3 == Raw(<<"-", "3">>)
R0 == Raw(<<"0">>)
R12 == Raw(<<"1", "2">>)
RPlus2 == Raw(<<"+", "2">>)
RAbc == Raw(<<"a", "b", "c">>)
R4x == Raw(<<"4", "x">>)
RDash == Raw(<<"-">>)
RNone == Raw(<<"N", "o", "n", "e">>)
RNULL == Raw(<<"N", "U", "L", "L">>)
RNullPad == Raw(<<" ", "n", "u", "l", "l", " ">>)

RawUniverse == {Unset, REmpty, RBlank, R5, RPad7, RNeg3, R0, R12, RPlus2, RAbc,
                R4x, RDash, RNone, RNULL, RNullPad}

\* str.lower on the characters in use
LowerChar(c) ==
    CASE c = "N" -> "n"
      [] c = "O" -> "o"
      [] c = "E" -> "e"
      [] c = "U" -> "u"
      [] c = "L" -> "l"
      [] OTHER -> c

LowerStr(s) == [i \in 1..Len(s) |-> LowerChar(s[i])]

\* int(raw) of a stripped string: an optional sign and at least one digit,
\* anything else is a ValueError
IntParse(s) ==
    LET signed == s # <<>> /\ s[1] \in {"+", "-"}
        ds == IF signed THEN Tail(s) ELSE s
    IN IF ds # <<>> /\ \A i \in 1..Len(ds) : ds[i] \in Digits
       THEN Some(IF signed /\ s[1] = "-" THEN 0 - IntOf(ds) ELSE IntOf(ds))
       ELSE [kind |-> "ValueError", val |-> 0]

\* mutant: the minimum is not applied
AtLeastNot(value, minimum) == value

\* max(value, minimum)
AtLeast(value, minimum) == Max(value, minimum)

\* _int_env(name, default, minimum, allow_none) when os.environ.get(name)
\* is raw
IntEnv(raw, default, minimum, allow_none) ==
    IF ~ raw.set
    THEN default
    ELSE LET s == Strip(raw.val)
             value == IntParse(s)
         IN IF allow_none
               /\ LowerStr(s) \in {<<>>, <<"n", "o", "n", "e">>,
                                   <<"n", "u", "l", "l">>}
            THEN NoneV
            ELSE IF s = <<>>
            THEN default
            ELSE IF value.kind = "ValueError"
            THEN default
            ELSE IF minimum.kind # "none"
            THEN Some(AtLeast(value.val, minimum.val))
            ELSE value

\* Python's `a or b`: None and 0 are falsy
Or(a, b) == IF a.kind = "none" \/ (a.kind = "int" /\ a.val = 0) THEN b ELSE a

EnvArgs ==
    [raw : RawUniverse, default : {NoneV, Some(1), Some(600)},
     minimum : {NoneV, Some(0), Some(1)}, allow_none : BOOLEAN]

EnvFrame == UNCHANGED <<coreVars, ytVars, webVars, cliVars, stVars>>

\* a direct call of _int_env
IntEnvCall ==
    /\ envpc = "call"
    /\ envRet' = IntEnv(envArgs.raw, envArgs.default, envArgs.minimum,
                        envArgs.allow_none)
    /\ lastRaw' = envArgs.raw
    /\ envpc' = "returned"
    /\ EnvFrame
    /\ UNCHANGED <<envArgs, workers, threads, timeout, graceful_timeout,
                   max_requests, max_requests_jitter>>

\* workers = _int_env("WEB_CONCURRENCY", 1, minimum=1) or 1
LoadWorkers ==
    /\ envpc = "load"
    /\ \E raw \in RawUniverse :
          /\ workers' = Or(IntEnv(raw, Some(1), Some(1), FALSE), Some(1))
          /\ lastRaw' = raw
    /\ envpc' = "threads"
    /\ EnvFrame
    /\ UNCHANGED <<envArgs, envRet, threads, timeout, graceful_timeout,
                   max_requests, max_requests_jitter>>

\* threads = _int_env("WEB_THREADS", 1, minimum=1) or 1
LoadThreads ==
    /\ envpc = "threads"
    /\ \E raw \in RawUniverse :
          /\ threads' = Or(IntEnv(raw, Some(1), Some(1), FALSE), Some(1))
          /\ lastRaw' = raw
    /\ envpc' = "timeout"
    /\ EnvFrame
    /\ UNCHANGED <<envArgs, envRet, workers, timeout, graceful_timeout,
                   max_requests, max_requests_jitter>>

\* timeout = _int_env("WEB_TIMEOUT", 600, minimum=1) or 600
LoadTimeout ==
    /\ envpc = "timeout"
    /\ \E raw \in RawUniverse :
          /\ timeout' = Or(IntEnv(raw, Some(600), Some(1), FALSE), Some(600))
          /\ lastRaw' = raw
    /\ envpc' = "graceful_timeout"
    /\ EnvFrame
    /\ UNCHANGED <<envArgs, envRet, workers, threads, graceful_timeout,
                   max_requests, max_requests_jitter>>

\* graceful_timeout = _int_env("WEB_GRACEFUL_TIMEOUT", timeout or 600,
\*                             minimum=1) or timeout or 600
LoadGracefulTimeout ==
    /\ envpc = "graceful_timeout"
    /\ \E raw \in RawUniverse :
          /\ graceful_timeout' =
                Or(Or(IntEnv(raw, Or(timeout, Some(600)), Some(1), FALSE),
                      timeout),
                   Some(600))
          /\ lastRaw' = raw
    /\ envpc' = "max_requests"
    /\ EnvFrame
    /\ UNCHANGED <<envArgs, envRet, workers, threads, timeout, max_requests,
                   max_requests_jitter>>

\* max_requests = _int_env("WEB_MAX_REQUESTS", None, allow_none=True)
LoadMaxRequests ==
    /\ envpc = "max_requests"
    /\ \E raw \in RawUniverse :
          /\ max_requests' = IntEnv(raw, NoneV, NoneV, TRUE)
          /\ lastRaw' = raw
    /\ envpc' = "max_requests_check"
    /\ EnvFrame
    /\ UNCHANGED <<envArgs, envRet, workers, threads, timeout,
                   graceful_timeout, max_requests_jitter>>

\* if max_requests is not None and max_requests <= 0: max_requests = None
CheckMaxRequests ==
    /\ envpc = "max_requests_check"
    /\ max_requests' = IF max_requests.kind # "none" /\ max_requests.val <= 0
                       THEN NoneV
                       ELSE max_requests
    /\ envpc' = "max_requests_jitter"
    /\ EnvFrame
    /\ UNCHANGED <<envArgs, envRet, lastRaw, workers, threads, timeout,
                   graceful_timeout, max_requests_jitter>>

\* max_requests_jitter = _int_env("WEB_MAX_REQUESTS_JITTER", 0, minimum=0) or 0
LoadJitter ==
    /\ envpc = "max_requests_jitter"
    /\ \E raw \in RawUniverse :
          /\ max_requests_jitter' =
                Or(IntEnv(raw, Some(0), Some(0), FALSE), Some(0))
          /\ lastRaw' = raw
    /\ envpc' = "loaded"
    /\ EnvFrame
    /\ UNCHANGED <<envArgs, envRet, workers, threads, timeout,
                   graceful_timeout, max_requests>>

InitEnv ==
    ProcessIdle /\ YtIdle /\ WebStart /\ CliIdle
        /\ EnvAt(EnvArgs, {"call", "load"}) /\ StIdle

NextEnv ==
    \/ IntEnvCall
    \/ LoadWorkers
    \/ LoadThreads
    \/ LoadTimeout
    \/ LoadGracefulTimeout
    \/ LoadMaxRequests
    \/ CheckMaxRequests
    \/ LoadJitter

SpecEnv == InitEnv /\ [][NextEnv]_vars

\* ------------------------------------------------------------ streamlit_app.py
\* An uploaded object has a name and may lack getbuffer.
GoodUpload == [name |-> "song.mp3", getbuffer |-> TRUE]
OtherUpload == [name |-> "clip.wav", getbuffer |-> TRUE]
BadUpload == [name |-> "odd.mp3", getbuffer |-> FALSE]

StUploads ==
    UNION { [1..n -> {GoodUpload, OtherUpload, BadUpload}] : n \in 0..MaxUploads }

\* an entry on disk is its path under the system temporary directory
WorkDir == <<"work_dir">>
SubDirs == {<<"uploads">>, <<"downloads">>, <<"temp">>, <<"output">>}

\* mutant: the URL text is tested unstripped
NothingGivenRaw(files, text) == files = <<>> /\ text = <<>>

\* not uploaded_files and not urls, urls = youtube_urls.strip()
NothingGiven(files, text) == files = <<>> /\ Strip(text) = <<>>

\* the targets download_func finds in the stripped text
StTargets(text) == IF Strip(text) = <<>> THEN <<>> ELSE SplitWs(Strip(text))

\* the uploads before the first one without getbuffer
SavedPrefix(files) ==
    LET bad == { i \in 1..Len(files) : ~ files[i].getbuffer }
    IN IF bad = {} THEN files
       ELSE SubSeq(files, 1, (CHOOSE i \in bad : \A j \in bad : i <= j) - 1)

\* target = destination / safe_name
Names(files) == [i \in 1..Len(files) |-> <<"uploads", files[i].name>>]

StFrame == UNCHANGED <<coreVars, ytVars, webVars, cliVars, envVars>>

\* the exception leaves the try block: on to the finally clause
StRaise(exc) ==
    /\ stExc' = exc
    /\ stpc' = "finally"

\* urls = youtube_urls.strip() and the first check
StCall ==
    /\ stpc = "call"
    /\ IF NothingGiven(uploaded_files, stUrls)
       THEN /\ stExc' = "ValueError"
            /\ stpc' = "raised"
       ELSE /\ stpc' = "mkdtemp"
            /\ UNCHANGED stExc
    /\ StFrame
    /\ UNCHANGED <<uploaded_files, stUrls, stDisk, stMade, local_paths,
                   downloaded_paths, all_inputs, stResults, packaged>>

\* work_dir = Path(workdir_factory(prefix=...)), before the try block: the
\* directory is created, or the factory raises and creates nothing
StMkdtemp ==
    /\ stpc = "mkdtemp"
    /\ \/ /\ stDisk' = {WorkDir}
          /\ stMade' = stMade + 1
          /\ stpc' = "mkdirs"
          /\ UNCHANGED stExc
       \/ /\ stExc' = "OSError"
          /\ stpc' = "raised"
          /\ UNCHANGED <<stDisk, stMade>>
    /\ StFrame
    /\ UNCHANGED <<uploaded_files, stUrls, local_paths, downloaded_paths,
                   all_inputs, stResults, packaged>>

\* the four mkdir calls and notify("prepare")
StMkdirs ==
    /\ stpc = "mkdirs"
    /\ \/ /\ stDisk' = stDisk \cup SubDirs
          /\ stpc' = "save"
          /\ UNCHANGED stExc
       \/ /\ stDisk' = stDisk \cup SubDirs
          /\ StRaise("Exception")
       \/ \E made \in {{}, {<<"uploads">>}, {<<"uploads">>, <<"downloads">>},
                       {<<"uploads">>, <<"downloads">>, <<"temp">>}} :
             /\ stDisk' = stDisk \cup made
             /\ StRaise("OSError")
    /\ StFrame
    /\ UNCHANGED <<uploaded_files, stUrls, stMade, local_paths,
                   downloaded_paths, all_inputs, stResults, packaged>>

\* local_paths = _save_uploaded_files(uploaded_files, uploads_dir) and
\* notify("uploads")
StSave ==
    /\ stpc = "save"
    /\ LET saved == SavedPrefix(uploaded_files)
       IN \/ /\ saved = uploaded_files
             /\ stDisk' = stDisk \cup { Names(saved)[i] : i \in 1..Len(saved) }
             /\ local_paths' = Names(saved)
             /\ stpc' = "download"
             /\ UNCHANGED stExc
          \/ /\ saved # uploaded_files
             /\ stDisk' = stDisk \cup { Names(saved)[i] : i \in 1..Len(saved) }
             /\ StRaise("AttributeError")
             /\ UNCHANGED local_paths
          \/ /\ uploaded_files # <<>>
             /\ StRaise("OSError")
             /\ UNCHANGED <<stDisk, local_paths>>
          \/ /\ saved = uploaded_files
             /\ stDisk' = stDisk \cup { Names(saved)[i] : i \in 1..Len(saved) }
             /\ StRaise("Exception")
             /\ UNCHANGED local_paths
    /\ StFrame
    /\ UNCHANGED <<uploaded_files, stUrls, stMade, downloaded_paths,
                   all_inputs, stResults, packaged>>

\* downloaded_paths = download_func(urls, download_dir=downloads_dir),
\* notify("downloads"), all_inputs and the check for no input
StDownload ==
    /\ stpc = "download"
    /\ LET found == StTargets(stUrls)
       IN \/ \E got \in SUBSET (1..Len(found)) :
                LET paths == [i \in 1..Len(Pick(found, got)) |->
                                 <<"downloads">>
                                     \o VideoId(Strip(Pick(found, got)[i]), 0)]
                IN /\ downloaded_paths' = paths
                   /\ all_inputs' = local_paths \o paths
                   /\ stDisk' = stDisk \cup { paths[i] : i \in 1..Len(paths) }
                   /\ IF local_paths \o paths = <<>>
                      THEN StRaise("ValueError")
                      ELSE /\ stpc' = "process"
                           /\ UNCHANGED stExc
          \/ /\ found # <<>>
             /\ StRaise("Exception")
             /\ UNCHANGED <<stDisk, downloaded_paths, all_inputs>>
    /\ StFrame
    /\ UNCHANGED <<uploaded_files, stUrls, stMade, local_paths, stResults,
                   packaged>>

\* results = process_func(...) and the check for no output
StProcess ==
    /\ stpc = "process"
    /\ \/ \E ok \in SUBSET (1..Len(all_inputs)) :
             /\ stResults' = Pick(all_inputs, ok)
             /\ stDisk' = stDisk \cup { <<"output">> \o all_inputs[i] : i \in ok }
             /\ IF ok = {}
                THEN StRaise("RuntimeError")
                ELSE /\ stpc' = "package"
                     /\ UNCHANGED stExc
       \/ /\ StRaise("Exception")
          /\ UNCHANGED <<stResults, stDisk>>
    /\ StFrame
    /\ UNCHANGED <<uploaded_files, stUrls, stMade, local_paths,
                   downloaded_paths, all_inputs, packaged>>

\* the packaging loop, notify("complete") and the return statement
StPackage ==
    /\ stpc = "package"
    /\ \/ /\ packaged' = stResults
          /\ stpc' = "finally"
          /\ UNCHANGED stExc
       \/ /\ StRaise("OSError")
          /\ UNCHANGED packaged
    /\ StFrame
    /\ UNCHANGED <<uploaded_files, stUrls, stDisk, stMade, local_paths,
                   downloaded_paths, all_inputs, stResults>>

\* finally: shutil.rmtree(work_dir, ignore_errors=True)
StFinally ==
    /\ stpc = "finally"
    /\ stDisk' = {}
    /\ stpc' = IF stExc = "-" THEN "returned" ELSE "raised"
    /\ StFrame
    /\ UNCHANGED <<uploaded_files, stUrls, stMade, local_paths,
                   downloaded_paths, all_inputs, stResults, packaged, stExc>>

InitSt ==
    ProcessIdle /\ YtIdle /\ WebStart /\ CliIdle /\ EnvIdle
        /\ StAt(StUploads, StrUniverse, "call")

NextSt ==
    \/ StCall
    \/ StMkdtemp
    \/ StMkdirs
    \/ StSave
    \/ StDownload
    \/ StProcess
    \/ StPackage
    \/ StFinally

SpecSt == InitSt /\ [][NextSt]_vars

\* ============================================================ claims
\* the unexpected exception was raised by a step of the current file
RaisedHere == "raise" \in {cur.norm, cur.sep, cur.remux}

\* the indices whose processing has ended, at the points between two files
\* and after the loop
Ended ==
    CASE pc \in {"finish", "done", "raised"} -> normStarted
      [] pc = "normalize" -> 0..(index - 1)
      [] OTHER -> {}

IdOf(i) == Stem(input_files[i + 1].name)

\* C1: a non-zero exit of normalize, separate or remux of file i aborts
\* nothing: process_files leaves the loop through an exception only when a
\* step raised something else, the file after a failed one is attempted, and
\* the loop ends only after the normalize step of every file was started.
C1_FailureDoesNotAbort ==
    /\ pc = "raised" => RaisedHere
    /\ \A i \in failedIdx :
         \/ i = index /\ (pc = "cleanup" \/ (i + 1 = N /\ pc \in {"finish", "done"}))
         \/ i + 1 = index /\ pc = "normalize"
         \/ (i + 1) \in normStarted
    /\ pc \in {"finish", "done"} /\ N > 0 => normStarted = 0..(N - 1)

C1_Witness ==
    /\ pc = "done"
    /\ N = 2
    /\ failedIdx = {0}
    /\ normStarted = {0, 1}

\* C2: no exception leaves process_files: whatever a step of a file raises
\* is caught like a non-zero exit, so the call never ends in an exception.
C2_NeverRaisesOut == pc # "raised"

\* C3: the empty batch returns the empty list and does nothing else: no
\* process is started, no directory is made, the callback is never invoked.
C3_EmptyBatchNoEffects ==
    N = 0 =>
        /\ pc \in {"call", "done"}
        /\ results = <<>>
        /\ dirs = {}
        /\ lastProc = NoProc
        /\ normStarted = {}
        /\ emitCalls = <<>>
        /\ delivered = <<>>
        /\ completeCount = 0
        /\ wavs = {} /\ demucsDirs = {} /\ outputs = {}

C3_Witness == N = 0 /\ pc = "done" /\ hasCallback

\* the entry the claim expects for the file at index i
EntryOf(i) ==
    [input |-> input_files[i + 1],
     output |-> [root |-> "output", id |-> IdOf(i), ext |-> OutputExt(input_files[i + 1])],
     id |-> IdOf(i)]

RECURSIVE EntriesFrom(_, _)
EntriesFrom(i, ok) ==
    IF i >= N THEN <<>>
    ELSE (IF i \in ok THEN <<EntryOf(i)>> ELSE <<>>) \o EntriesFrom(i + 1, ok)

\* C4: the result list holds, in input order, exactly one {input, output, id}
\* entry for each file whose normalize, separate and remux steps succeeded
\* and whose vocals were located, with id the stem and output
\* <output root>/<id>_vocals.<ext>, and nothing for any other file.
C4_ResultsAreTheSuccesses ==
    IF pc = "cleanup" /\ cur.remux = "ok"
    THEN results = EntriesFrom(0, okIdx \cup {index})
    ELSE results = EntriesFrom(0, okIdx)

C4_Witness ==
    /\ pc = "done"
    /\ N = 2
    /\ okIdx = {1}
    /\ Len(results) = 1
    /\ results[1].input = input_files[2]

\* C5: every fraction handed to the progress callback lies in [0,1].
C5_FractionsInUnitInterval ==
    \A k \in 1..Len(delivered) :
        delivered[k].fraction >= 0 /\ delivered[k].fraction <= One

C5_Witness ==
    /\ N = 2
    /\ index = 1
    /\ \E k \in 1..Len(delivered) : delivered[k].stage = "file_complete"

\* the line contains 1-3 digits followed by '%'
HasPercent(line) ==
    \E i \in 1..Len(line), k \in 1..3 :
        /\ i + k <= Len(line)
        /\ line[i + k] = "%"
        /\ \A j \in i..(i + k - 1) : line[j] \in Digits

\* C6: a diagnostic line with 1-3 digits and '%' gives exactly one "demucs"
\* event, at 0.22 + 0.60 * min(p,100)/100 of the file's span, so within
\* [0.22, 0.82] of it; non-decreasing percentages of one file give
\* non-decreasing fractions.
C6_PercentMapsIntoSpan ==
    /\ \A k \in 1..Len(seen) :
        /\ seen[k].fraction = (2200 + 60 * Min(seen[k].p, 100)) * N
        /\ seen[k].fraction >= 2200 * N
        /\ seen[k].fraction <= 8200 * N
        /\ seen[k].bounded = index * 10000 * N + seen[k].fraction
    /\ \A j, k \in 1..Len(seen) :
        j < k /\ seen[j].p <= seen[k].p =>
            /\ seen[j].fraction <= seen[k].fraction
            /\ seen[j].bounded <= seen[k].bounded
    /\ lastLine # <<>> /\ HasPercent(lastLine) =>
        /\ seen # <<>>
        /\ emitCalls = <<[stage |-> "demucs", fraction |-> seen[Len(seen)].fraction]>>
        /\ delivered = IF hasCallback
                       THEN <<[stage |-> "demucs", fraction |-> seen[Len(seen)].bounded]>>
                       ELSE <<>>
        /\ lastLine = <<"1", "0", "%">> => seen[Len(seen)].p = 10
        /\ lastLine = <<"9", "9", "9", "%">> => seen[Len(seen)].p = 999
        /\ lastLine = <<"x", "5", "%", "9", "0", "%">> => seen[Len(seen)].p = 5
        /\ lastLine = <<"1", "2", "3", "4", "%">> => seen[Len(seen)].p = 234
    /\ lastLine # <<>> /\ ~HasPercent(lastLine) => emitCalls = <<>>

C6_Witness ==
    /\ hasCallback
    /\ N = 2
    /\ index = 1
    /\ Len(seen) = 2
    /\ seen[1].p = 10
    /\ seen[2].p = 999
    /\ lastLine = <<"9", "9", "9", "%">>

\* vocals.wav files of the current file's id, in any model directory
VocalsOfCurrent == { f \in vocalsFiles : f[2] = FileId(File) }

\* C7: after a zero exit of the separation the expected vocals.wav is used
\* when it exists, else one found under another model directory; when there
\* is none, no remux is started, no result is added, nothing is raised and
\* the batch goes on.
C7_VocalsLookup ==
    /\ pc = "remux" =>
        IF <<Model, FileId(File)>> \in vocalsFiles
        THEN vocals_path = <<Model, FileId(File)>>
        ELSE vocals_path \in VocalsOfCurrent
    /\ pc = "cleanup" /\ cur.sep = "ok" /\ VocalsOfCurrent # {} =>
        /\ lastProc.step = "remux"
        /\ lastProc.index = index
        /\ lastProc.vocals \in VocalsOfCurrent
        /\ <<Model, FileId(File)>> \in vocalsFiles =>
               lastProc.vocals = <<Model, FileId(File)>>
    /\ pc = "cleanup" /\ cur.sep = "ok" /\ VocalsOfCurrent = {} =>
        /\ lastProc.step = "separate"
        /\ pending = "none"
        /\ results = EntriesFrom(0, okIdx)
        /\ ~ \E k \in 1..Len(emitCalls) : emitCalls[k].stage = "error"
    /\ pc \in {"normalize", "finish", "done"} => pending = "none"

C7_Witness ==
    /\ N = 2
    /\ index = 1
    /\ pc = "remux"
    /\ vocals_path = <<"alt", FileId(File)>>
    /\ <<Model, FileId(File)>> \notin vocalsFiles
    /\ okIdx = {}
    /\ failedIdx = {}

\* C8: output extension and codec are a fixed function of the lower-cased
\* input extension: the video extensions give mp4 with aac and copied video,
\* mp3 gives mp3/libmp3lame, m4a and aac keep the extension with aac, ogg and
\* opus keep it with libopus, wav and everything else give wav with copy.
C8_ExtensionAndCodec ==
    lastProc.step = "remux" =>
        LET raw == Suffix(File.name)
            e == Lower(raw)
        IN /\ e \in {"mp4", "mov", "avi", "mkv", "webm"} =>
                lastProc.ext = "mp4" /\ lastProc.codec = "aac" /\ lastProc.vcopy
           /\ e = "mp3" =>
                lastProc.ext = "mp3" /\ lastProc.codec = "libmp3lame" /\ ~lastProc.vcopy
           /\ e \in {"m4a", "aac"} =>
                lastProc.ext = e /\ lastProc.codec = "aac" /\ ~lastProc.vcopy
           /\ e \in {"ogg", "opus"} =>
                lastProc.ext = e /\ lastProc.codec = "libopus" /\ ~lastProc.vcopy
           /\ e \notin {"mp4", "mov", "avi", "mkv", "webm", "mp3", "m4a", "aac",
                        "ogg", "opus"} =>
                lastProc.ext = "wav" /\ lastProc.codec = "copy" /\ ~lastProc.vcopy
           /\ raw \in {"MP4", "MKV"} => lastProc.ext = "mp4" /\ lastProc.vcopy
           /\ raw = "Mp3" => lastProc.codec = "libmp3lame"
           /\ raw \in {"flac", "txt", "", "WAV"} =>
                lastProc.ext = "wav" /\ lastProc.codec = "copy"
           /\ \A k \in 1..Len(results) : results[k].output.ext = lastProc.ext

C8_Witness ==
    /\ lastProc.step = "remux"
    /\ Suffix(File.name) = "opus"
    /\ lastProc.codec = "libopus"
    /\ Len(results) = 1

\* C9: whatever the outcome of a file, <temp root>/audio/<id>.wav is gone
\* when the processing of that file has ended, so none is left when
\* process_files is over.
C9_NoNormalizedLeftBehind == \A i \in Ended : IdOf(i) \notin wavs

C9_Witness ==
    /\ pc = "done"
    /\ N = 2
    /\ failedIdx = {0}
    /\ okIdx = {1}
    /\ cur.norm = "ok"

\* C10: whatever the outcome of a file, no separation output directory of
\* its id is left under <temp root>/demucs when the processing of that file
\* has ended, also when the vocals came from another model directory.
C10_NoSeparationDirLeftBehind ==
    \A i \in Ended : ~ \E d \in demucsDirs : d[2] = IdOf(i)

\* C11: with a callback and a non-empty batch, every call of process_files
\* that is over, by returning or by an exception, has delivered exactly one
\* "complete" event, of fraction 1.0, and that event was the last one.
C11_OneCompleteEventLast ==
    (hasCallback /\ N > 0 /\ pc \in {"done", "raised"})
        => /\ completeCount = 1
           /\ delivered = <<[stage |-> "complete", fraction |-> One]>>

\* the paths of the runs that exited zero with their file on disk, in order
RECURSIVE YtKept(_)
YtKept(runs) ==
    IF runs = <<>>
    THEN <<>>
    ELSE (IF Head(runs).outcome \in {"ok", "nofile"} /\ Head(runs).there
          THEN <<Head(runs).out>>
          ELSE <<>>) \o YtKept(Tail(runs))

NonBlank(u) == \E i \in DOMAIN u : u[i] # " "

\* C12: a downloader run that exits non-zero, or exits zero without its
\* file, only leaves its target out: the loop goes on with the next target,
\* the list is the paths of the runs that exited zero with their file there,
\* in target order, and it is empty when there is no target;
\* download_from_youtube is left through an exception only when
\* subprocess.run raised something else than CalledProcessError.
C12_PartialFailureSkipsTarget ==
    /\ downloaded = YtKept(ytRuns)
    /\ ytpc = "raised" => ytRuns[Len(ytRuns)].outcome = "raise"
    /\ \A k \in 1..Len(ytRuns) :
          ytRuns[k].outcome # "raise" => yti > ytRuns[k].target
    /\ ytpc = "returned" =>
          \A i \in 1..Len(targets) :
              NonBlank(targets[i])
                  => \E k \in 1..Len(ytRuns) : ytRuns[k].target = i
    /\ (ytpc = "returned" /\ \A i \in 1..Len(targets) : ~ NonBlank(targets[i]))
          => downloaded = <<>>

C12_Witness ==
    /\ ytpc = "returned"
    /\ Len(ytRuns) = 2
    /\ ytRuns[1].outcome \in {"fail", "nofile"}
    /\ ~ ytRuns[1].there
    /\ ytRuns[2].outcome = "ok"
    /\ downloaded = <<ytRuns[2].out>>

\* the non-blank targets of the argument, written out for the single strings
ExpectedTargets ==
    CASE urls.kind = "list" -> SelectSeq(urls.val, NonBlank)
      [] urls.kind = "str" /\ urls.val = STwo -> <<UWatch, UOther>>
      [] urls.kind = "str" /\ urls.val = SOne -> <<UShort>>
      [] OTHER -> <<>>

\* the url handed to the downloader
ExpectedUrl(u) == IF u = UPadded THEN <<"https://", Short, "abc">> ELSE u

\* the identifier of each target, for a run at time t
ExpectedId(u, t) ==
    CASE u = UWatch -> <<"abc">>
      [] u = UShort -> <<"xyz">>
      [] u = UBoth -> <<"zzz">>
      [] u = UPadded -> <<"abc">>
      [] OTHER -> <<"yt_", ToString(t)>>

\* C13: the downloader runs once for each non-blank target, in order, and
\* never for a blank one (a single string is split at its whitespace); the
\* k-th run writes to <dest>/<identifier>.mp4, the identifier being the text
\* after the watch marker up to the first '&', else the text after the short
\* marker up to the first '?', else yt_<seconds>.
C13_OneRunPerTarget ==
    /\ Len(ytRuns) <= Len(ExpectedTargets)
    /\ \A k \in 1..Len(ytRuns) :
          /\ ytRuns[k].url = ExpectedUrl(ExpectedTargets[k])
          /\ ytRuns[k].at \in 0..now
          /\ ytRuns[k].out =
                [root |-> "media",
                 id |-> ExpectedId(ExpectedTargets[k], ytRuns[k].at),
                 ext |-> "mp4"]
    /\ ytpc = "returned" => Len(ytRuns) = Len(ExpectedTargets)

C13_Witness ==
    /\ ytpc = "returned"
    /\ urls = [kind |-> "str", val |-> STwo]
    /\ Len(ytRuns) = 2
    /\ ytRuns[1].out.id = <<"abc">>
    /\ ytRuns[2].out.id = <<"yt_", "1">>

\* the tracked state of the web layer: registry, task objects, working
\* directories and files, mutex, threads
WebState == <<registry, task, workDirs, outFiles, lock, worker, poller,
              fetcher, closedIds>>

\* the error each upload of the universe is to be refused with, "-" for an
\* upload that is to be accepted
ExpectedError(upload) ==
    CASE upload \in {NoUpload, Upload(<<"">>)} -> "no_file"
      [] upload \in {Upload(<<"notes", "txt">>), Upload(<<"noext">>),
                     Upload(<<"", "mp3">>)} -> "invalid_type"
      [] OTHER -> "-"

\* C14: a submit with no file, an empty file name or a file name outside the
\* allow-list is answered 400 with no_file or invalid_type in the same step,
\* and that step changes nothing: no task is registered, no working directory
\* is made, no worker is started. Any other upload is accepted.
C14_InvalidSubmitChangesNothing ==
    [][ resp'.handler = "submit" =>
          IF ExpectedError(resp'.upload) # "-"
          THEN /\ resp'.code = 400
               /\ resp'.error = ExpectedError(resp'.upload)
               /\ UNCHANGED WebState
          ELSE resp'.code = 200 ]_vars

C14_Witness ==
    /\ resp.handler = "submit"
    /\ resp.code = 400
    /\ resp.error = "invalid_type"
    /\ resp.upload = Upload(<<"", "mp3">>)
    /\ registry = {1}
    /\ worker[1].pc = "u_progress"

C16_GoneAfterDownload ==
    /\ [](\A t \in closedIds :
             t \notin registry /\ t \notin workDirs /\ t \notin outFiles)
    /\ [][ /\ (poller.pc = "idle" /\ poller'.pc # "idle")
                => poller'.id \notin closedIds
           /\ \A f \in DOMAIN fetcher :
                (fetcher[f].pc = "idle" /\ fetcher'[f].pc # "idle")
                    => fetcher'[f].id \notin closedIds ]_vars

C16_Witness ==
    /\ closedIds = {1}
    /\ resp.handler = "poll"
    /\ resp.code = 404
    /\ resp.id = 1

\* C17: the progress of a task never decreases and is within [0,100] (here
\* 0..10000 hundredths of a percent) in every reachable state; the progress
\* step of an update leaves the larger of the current and the incoming value.
C17_ProgressMonotone ==
    /\ [](\A t \in TaskIds : task[t].progress \in 0..10000)
    /\ [][ \A t \in TaskIds :
             /\ task'[t].progress >= task[t].progress
             /\ (worker[t].pc = "u_progress" /\ worker'[t].pc = "u_message")
                  => LET incoming == worker[t].event.fraction * 100
                     IN task'[t].progress =
                           IF incoming > task[t].progress
                           THEN incoming ELSE task[t].progress ]_vars

\* an incoming value below the current one was delivered and absorbed
C17_Witness ==
    /\ worker[1].pc = "u_message"
    /\ worker[1].event = PrepareEvent
    /\ worker[1].event.fraction * 100 < task[1].progress
    /\ task[1].progress = 500

C19_WorkerOutcome ==
    \A t \in TaskIds :
        /\ task[t].status = "completed" => worker[t].outcome = "result"
        /\ task[t].output_path # NoPath => worker[t].outcome = "result"
        /\ worker[t].pc = "end" =>
              IF worker[t].outcome \in {"raise", "empty"}
              THEN /\ task[t].status = "error"
                   /\ task[t].error \in {"str(exc)", "no_output"}
                   /\ task[t].message \in
                        {"Processing failed. Please try again.",
                         "No output was produced. Please try a different file."}
                   /\ task[t].output_path = NoPath
              ELSE /\ worker[t].outcome = "result"
                   /\ task[t].status = "completed"
                   /\ task[t].progress = 10000
                   /\ task[t].output_path # NoPath

C19_Witness ==
    /\ worker[1].pc = "end"
    /\ worker[1].outcome = "empty"
    /\ task[1].status = "error"
    /\ task[1].error = "no_output"

\* C20: every read and write of the registry and of a field of a task
\* object, by the handlers and by the worker, is made with the mutex held.
C20_AllAccessUnderMutex == unlocked = {}

MissingLocal == { f \in InputUniverse : ~ StartsWithHttp(f) /\ f \notin Disk }

\* C22: an input that starts with http:// or https:// is a remote target and
\* every other input a local candidate; a local candidate that is not on
\* disk is dropped and never handed to process_files; when the only input
\* is a missing local file, main logs "No valid input files", exits with
\* code 1 and does not call process_files.
C22_MissingLocalDropped ==
    /\ clipc # "call" =>
          /\ \A i \in 1..Len(youtube_urls) :
                youtube_urls[i][1] \in {"http://", "https://"}
          /\ \A i \in 1..Len(local_files) :
                local_files[i][1] \notin {"http://", "https://"}
          /\ Len(youtube_urls) + Len(local_files) = Len(inputs)
    /\ \A k \in 1..Len(processArg) :
          \A i \in 1..Len(processArg[k]) : processArg[k][i] \notin MissingLocal
    /\ (clipc = "exited" /\ inputs = <<IMissing>>) =>
          /\ exitCode = 1
          /\ cliLog = "No valid input files found."
          /\ processArg = <<>>

\* what the raw values of the universe denote
IntValued == {<<R5, 5>>, <<RPad7, 7>>, <<RNeg3, -3>>, <<R0, 0>>, <<R12, 12>>,
              <<RPlus2, 2>>}
BlankRaw == {REmpty, RBlank}
NoneWord == {RNone, RNULL, RNullPad}
NotInteger == {RAbc, R4x, RDash} \cup NoneWord
Denoted(raw) == (CHOOSE p \in IntValued : p[1] = raw)[2]

\* the value the description of _int_env gives
Described(a) ==
    IF a.raw = Unset THEN a.default
    ELSE IF a.allow_none /\ a.raw \in BlankRaw \cup NoneWord THEN NoneV
    ELSE IF a.raw \in BlankRaw \cup NotInteger THEN a.default
    ELSE IF a.minimum = NoneV THEN Some(Denoted(a.raw))
    ELSE Some(Max(Denoted(a.raw), a.minimum.val))

AtLeastOne(setting) ==
    setting # Unbound => setting.kind = "int" /\ setting.val >= 1

\* C23: _int_env never raises and returns the default for an unset, blank
\* (without allow_none) or non-integer variable, None under allow_none for
\* an empty, "none" or "null" trimmed value in any case, and otherwise the
\* parsed integer raised to the minimum; so workers, threads, timeout and
\* graceful_timeout are at least 1, and max_requests is None whenever
\* WEB_MAX_REQUESTS is unset, blank, malformed or not positive.
C23_IntEnv ==
    /\ envpc = "returned" =>
          /\ envRet.kind \in {"int", "none"}
          /\ envRet = Described(envArgs)
    /\ AtLeastOne(workers)
    /\ AtLeastOne(threads)
    /\ AtLeastOne(timeout)
    /\ AtLeastOne(graceful_timeout)
    /\ envpc = "max_requests_jitter" =>
          /\ max_requests.kind \in {"int", "none"}
          /\ (lastRaw \in {Unset} \cup BlankRaw \cup NotInteger
                \/ (\E p \in IntValued : p[1] = lastRaw /\ p[2] <= 0))
                => max_requests = NoneV
          /\ max_requests # NoneV => max_requests = Some(Denoted(lastRaw))

C23_Witness ==
    /\ envpc = "loaded"
    /\ workers = Some(1)
    /\ threads = Some(7)
    /\ timeout = Some(600)
    /\ graceful_timeout = Some(12)
    /\ max_requests = NoneV

\* C24: the working directory of _process_submission never outlives the
\* call: when the call has returned or raised (ValueError for no valid
\* media, RuntimeError for no outputs, any other exception of saving,
\* downloading or processing) nothing of it is left on disk; and with no
\* uploaded file and no non-blank URL the call raises ValueError and no
\* working directory is ever created.
C24_WorkDirRemoved ==
    /\ stpc \in {"returned", "raised"} => stDisk = {}
    /\ stDisk # {} => stpc \in {"mkdirs", "save", "download", "process",
                                "package", "finally"}
    /\ stMade <= 1
    /\ (stpc # "idle" /\ uploaded_files = <<>>
            /\ \A i \in 1..Len(stUrls) : stUrls[i] = " ") =>
          /\ stMade = 0
          /\ stpc \in {"call", "raised"}
          /\ stpc = "raised" => stExc = "ValueError"
    /\ (stpc = "raised" /\ stExc = "RuntimeError") =>
          stMade = 1 /\ stResults = <<>> /\ all_inputs # <<>>
    /\ stpc = "returned" => stMade = 1 /\ packaged # <<>>

C24_Witness ==
    /\ stpc = "raised"
    /\ stExc = "ValueError"
    /\ stMade = 1
    /\ stUrls = SOne
    /\ stDisk = {}

Live(t) == t \in registry /\ task[t].status \in {"queued", "running"}
Terminal(t) == task[t].status \in {"completed", "error"}

\* C25: with the worker thread scheduled fairly and process_files coming
\* back, every accepted task reaches status completed or error; a task whose
\* status is queued or running is never taken out of the registry, never
\* loses its working directory, and its thread does not end before the
\* status is final.
C25_TaskTerminates ==
    /\ \A t \in TaskIds : Live(t) ~> Terminal(t)
    /\ [](\A t \in TaskIds :
            Live(t) => t \in workDirs /\ worker[t].pc \notin {"none", "end"})
    /\ [][\A t \in TaskIds :
            Live(t) => /\ t \in registry'
                       /\ t \in workDirs'
                       /\ (worker'[t] # worker[t] => WorkerStep(t))]_vars

C25_Witness ==
    /\ task[1].status = "error"
    /\ worker[1].pc = "end"
    /\ worker[1].outcome = "raise"
    /\ 1 \in registry
    /\ resp.handler = "fetch"
    /\ resp.code = 404

\* the demucs child of Popen is alive from its start to the return of wait()
DemucsAlive == pc \in {"read", "wait"}

\* C26: the external steps run one at a time and in a fixed order: a
\* process is started only while no other one is alive; separation is
\* started only after the conversion of the same file exited zero; the
\* remux is started only after the separation exited zero and a vocals
\* file was located; and the loop moves to the next file only in the
\* finally block of the current one, so no step of a later file starts
\* before that cleanup.
C26_SequentialSteps ==
    /\ [](/\ DemucsAlive => lastProc.step = "separate" /\ lastProc.index = index
          /\ lastProc.step = "separate" => cur.norm = "ok"
          /\ lastProc.step = "remux" =>
                /\ cur.norm = "ok"
                /\ cur.sep = "ok"
                /\ cur.located \in {"expected", "alternate"}
                /\ lastProc.vocals # <<>>
          /\ lastProc.step # "none" => lastProc.index <= index)
    /\ [][/\ lastProc' # lastProc =>
                /\ ~ DemucsAlive
                /\ lastProc'.index = index
                /\ index' = index
                /\ lastProc'.step =
                      (CASE pc = "normalize" -> "normalize"
                         [] pc = "spawn" -> "separate"
                         [] pc = "remux" -> "remux"
                         [] OTHER -> "none")
                /\ lastProc.index = index =>
                      <<lastProc.step, lastProc'.step>> \in
                          {<<"normalize", "separate">>, <<"separate", "remux">>}
          /\ index' # index =>
                /\ pc = "cleanup"
                /\ index' = index + 1
                /\ FileId(File) \notin wavs'
                /\ DemucsCandidate(File) \notin demucsDirs'
                /\ pc' = "normalize"]_vars

C26_Witness ==
    /\ index = 1
    /\ lastProc.step = "remux"
    /\ lastProc.index = 1
    /\ 0 \in failedIdx
    /\ pc = "cleanup"

\* C27: under every interleaving of a poll with the worker's updates, a
\* poll response that reports status "completed" also reports
\* download_ready true and progress 100.
C27_PollSnapshot ==
    (resp.handler = "poll" /\ resp.code = 200
        /\ resp.payload.status = "completed") =>
        /\ resp.payload.download_ready
        /\ resp.payload.progress = 10000

\* C28: a task leaves the registry only in the on-close step of a served
\* download of that task, and its working directory is deleted only by the
\* step that follows that pop; so a task with status error stays
\* registered with its working directory; and the on-close step for an
\* identifier that is no longer registered changes nothing.
C28_RemovedOnlyOnClose ==
    /\ [](\A t \in TaskIds :
            task[t].status = "error" => t \in registry /\ t \in workDirs)
    /\ [][ /\ \A t \in registry \ registry' :
                \E f \in DOMAIN fetcher :
                    /\ fetcher[f].pc = "streaming"
                    /\ fetcher[f].id = t
                    /\ fetcher'[f].pc = "rmtree"
                    /\ task[t].output_path # NoPath
           /\ \A t \in workDirs \ workDirs' :
                \E f \in DOMAIN fetcher :
                    /\ fetcher[f].pc = "rmtree"
                    /\ fetcher[f].id = t
                    /\ t \notin registry
           /\ \A f \in DOMAIN fetcher :
                (fetcher[f].pc = "streaming" /\ fetcher'[f].pc # "streaming"
                    /\ fetcher[f].id \notin registry) =>
                    /\ fetcher'[f] = IdleHandler
                    /\ UNCHANGED <<registry, task, workDirs, outFiles, worker,
                                   closedIds>> ]_vars

C28_Witness ==
    /\ closedIds = {1}
    /\ 1 \notin registry
    /\ 1 \notin workDirs
    /\ fetcher[1] = IdleHandler
    /\ fetcher[2].pc = "streaming"
    /\ fetcher[2].id = 1

\* the parsed percentages of the current file, in reading order, never fall
PercentsNonDecreasing(s) ==
    \A i \in 1..Len(s) : \A j \in i..Len(s) : s[i].p <= s[j].p

\* C29: in a run whose parsed separation percentages never fall within a
\* file, the overall fractions handed to the progress callback never fall:
\* neither inside the events of one step nor from the last event of a step
\* to the first event of the next one, the "error" event included.
C29_FractionsNonDecreasing ==
    [][ (delivered' # <<>> /\ PercentsNonDecreasing(seen')
            /\ PercentsNonDecreasing(seen)) =>
          /\ \A i \in 1..Len(delivered') : \A j \in i..Len(delivered') :
                delivered'[i].fraction <= delivered'[j].fraction
          /\ delivered # <<>> =>
                delivered[Len(delivered)].fraction <= delivered'[1].fraction ]_vars

PairwiseDistinct(s) == \A i, j \in 1..Len(s) : i # j => s[i] # s[j]

\* no two entries of the result list name the same output file
ResultOutputsDistinct ==
    PairwiseDistinct([i \in 1..Len(results) |-> results[i].output])

\* the WAV and the separation directory of the file being processed are
\* not those of another file of the batch
IntermediatesDistinct ==
    pc \in {"spawn", "read", "wait", "remux", "cleanup"} =>
        \A j \in 1..N :
            j # index + 1 =>
                /\ FileId(input_files[j]) # FileId(File)
                /\ DemucsCandidate(input_files[j]) # DemucsCandidate(File)

\* C30: in a run over pairwise distinct input paths no two entries of the
\* result list have the same output path, and the intermediate paths of one
\* file are never the paths used by another file of the batch, also for
\* inputs that share a stem and differ in directory or extension.
C30_DistinctPaths ==
    PairwiseDistinct(input_files) =>
        ResultOutputsDistinct /\ IntermediatesDistinct
====
